---------------------------- MODULE Spec2Model ----------------------------
(***************************************************************************)
(* zpool-rw-meter: the statistics-collection core.                         *)
(*                                                                         *)
(*   RateCalculator  src/src/zfs/rate_calculator.rs                        *)
(*   Cache<T>        src/src/system/cache.rs                               *)
(*   ZfsStatsCollector  src/src/zfs/stats.rs                               *)
(*                                                                         *)
(* Representation.                                                         *)
(*   Option<T>     None is <<>>, Some(x) is <<x>>.                         *)
(*   HashMap<K,V>  a function whose DOMAIN is the set of stored keys.      *)
(*   u64           0 .. U64Max.                                            *)
(*   Instant       a number of clock ticks; Duration a number of ticks;    *)
(*                 TicksPerSec ticks make one second.                      *)
(*   f64 rate      the exact quotient the f64 division rounds, kept as a   *)
(*                 fraction [num, den] in lowest terms (0.0 is 0/1).       *)
(*   text          a sequence of lines; a line is [indent, parts]: whether *)
(*                 it starts with white space, and its split_whitespace()  *)
(*                 tokens; a token is [kind, name, val]: a word, an        *)
(*                 unsigned integer literal or a decimal literal.          *)
(***************************************************************************)
EXTENDS Integers, Sequences, FiniteSets, TLC

VARIABLES
    rate_calculator,  \* RateCalculator: [previous_values, previous_timestamps]
    rc_ret,           \* Option<f64> returned by the last call (None when it returns nothing)
    rc_call,          \* the last RateCalculator call: its arguments and what was stored before it
    rc_obs,           \* history: key -> Option<(value, timestamp)>, the last observation since the last reset
    rc_solo,          \* history: key -> a RateCalculator that received only that key's calls
    rc_solo_ret,      \* what the key's own RateCalculator returned for the last call
    cache,            \* Cache<String>: [data, default_ttl], data: key -> [value, expires_at]
    now,              \* the monotonic clock read by Instant::now()
    cache_ret,        \* Option<&T> returned by the last get (None when the step returns nothing)
    cache_call,       \* the last Cache step: its operation, key, and the store's size before it
    cache_ins,        \* history: key -> Option<[value, at, ttl]>, the last insert since the last clear
    kstat,            \* a kernel statistics text and what parsing it gave: [text, op, checks, result]
    pc,               \* where the collector's current call stands ("idle" between calls)
    call,             \* the collector's current or last call: method, instant, events, result
    monitor,          \* the monitoring loop: where it stands and what the cycle collected and displayed
    joined            \* family -> Option<[pc, call]>: the futures of a join that are not being polled

rc_vars == <<rate_calculator, rc_ret, rc_call, rc_obs, rc_solo, rc_solo_ret>>

cache_vars == <<cache, now, cache_ret, cache_call, cache_ins>>

col_vars == <<kstat, pc, call, monitor, joined>>

vars == <<rate_calculator, rc_ret, rc_call, rc_obs, rc_solo, rc_solo_ret,
          cache, now, cache_ret, cache_call, cache_ins, kstat, pc, call,
          monitor, joined>>

---------------------------------------------------------------------------
(* Bounds of the model *)

\* stands for u64::MAX: values are 0 .. U64Max
U64Max == 2
\* timestamps handed to the RateCalculator are 0 .. MaxTime ticks
MaxTime == 3
\* clock resolution: ticks per second (so that half seconds occur)
TicksPerSec == 2
\* the clock runs from 0 to MaxNow ticks
MaxNow == 3
\* time-to-live arguments are 0 .. MaxTtl ticks
MaxTtl == 2
\* the clock of a collector whose three methods are called runs from 0 to
\* MaxCollectorNow ticks
MaxCollectorNow == 1

Keys == {"k1", "k2"}
Values == 0 .. U64Max
Instants == 0 .. MaxTime
CacheKeys == {"zpool_status", "zpool_iostat"}
CacheValues == {"out1", "out2"}
Ttls == 0 .. MaxTtl

---------------------------------------------------------------------------
(* Option *)

None == <<>>
Some(x) == <<x>>
is_some(o) == Len(o) = 1
is_none(o) == Len(o) = 0
unwrap(o) == o[1]

\* HashMap::get
map_get(m, key) == IF key \in DOMAIN m THEN Some(m[key]) ELSE None
\* HashMap::insert
map_insert(m, key, x) == [k \in DOMAIN m \cup {key} |-> IF k = key THEN x ELSE m[k]]
\* HashMap::new, HashMap::clear
EmptyMap == [k \in {} |-> 0]

---------------------------------------------------------------------------
(* f64 quotients as fractions in lowest terms *)

RECURSIVE Gcd(_, _)
Gcd(a, b) == IF b = 0 THEN a ELSE Gcd(b, a % b)

\* n / d for n >= 0, d > 0
Frac(n, d) == LET g == Gcd(n, d) IN [num |-> n \div g, den |-> d \div g]
Zero == [num |-> 0, den |-> 1]

---------------------------------------------------------------------------
(* RateCalculator *)

\* u64::saturating_sub
saturating_sub_wrapping(a, b) == (a - b) % (U64Max + 1)
saturating_sub(a, b) == IF a >= b THEN a - b ELSE 0

\* Instant::duration_since: the elapsed ticks, zero when `earlier` is later than `self`
duration_since(self, earlier) == IF self >= earlier THEN self - earlier ELSE 0

\* RateCalculator::new
RateCalculator_new == [previous_values |-> EmptyMap, previous_timestamps |-> EmptyMap]

\* calculate_rate whose value delta is the current value, not the difference
calculate_rate_no_delta(self, key, current_value, current_time) ==
    LET prev_value == map_get(self.previous_values, key)
        prev_time == map_get(self.previous_timestamps, key)
    IN  IF is_some(prev_value) /\ is_some(prev_time)
        THEN LET time_delta == duration_since(current_time, unwrap(prev_time))
             IN  IF time_delta > 0
                 THEN Some(Frac(current_value * TicksPerSec, time_delta))
                 ELSE Some(Zero)
        ELSE None

\* calculate_rate without the guard on the time delta
calculate_rate_unguarded(self, key, current_value, current_time) ==
    LET prev_value == map_get(self.previous_values, key)
        prev_time == map_get(self.previous_timestamps, key)
    IN  IF is_some(prev_value) /\ is_some(prev_time)
        THEN LET value_delta == saturating_sub(current_value, unwrap(prev_value))
                 time_delta == current_time - unwrap(prev_time)
             IN  Some([num |-> value_delta * TicksPerSec, den |-> time_delta])
        ELSE None

\* calculate_rate that answers 0 instead of None for a key without an entry
calculate_rate_zero_first(self, key, current_value, current_time) ==
    LET prev_value == map_get(self.previous_values, key)
        prev_time == map_get(self.previous_timestamps, key)
    IN  IF is_some(prev_value) /\ is_some(prev_time)
        THEN LET value_delta == saturating_sub(current_value, unwrap(prev_value))
                 time_delta == duration_since(current_time, unwrap(prev_time))
             IN  IF time_delta > 0
                 THEN Some(Frac(value_delta * TicksPerSec, time_delta))
                 ELSE Some(Zero)
        ELSE Some(Zero)

\* RateCalculator::calculate_rate: Option<f64>, value per second
\* (time_delta.as_secs_f64() is time_delta / TicksPerSec)
calculate_rate(self, key, current_value, current_time) ==
    LET prev_value == map_get(self.previous_values, key)
        prev_time == map_get(self.previous_timestamps, key)
    IN  IF is_some(prev_value) /\ is_some(prev_time)
        THEN LET value_delta == saturating_sub(current_value, unwrap(prev_value))
                 time_delta == duration_since(current_time, unwrap(prev_time))
             IN  IF time_delta > 0
                 THEN Some(Frac(value_delta * TicksPerSec, time_delta))
                 ELSE Some(Zero)
        ELSE None

\* update that stamps every stored key with the new timestamp
update_shared_timestamp(self, key, value, timestamp) ==
    [previous_values |-> map_insert(self.previous_values, key, value),
     previous_timestamps |->
        [k \in DOMAIN self.previous_timestamps \cup {key} |-> timestamp]]

\* RateCalculator::update
update(self, key, value, timestamp) ==
    [previous_values |-> map_insert(self.previous_values, key, value),
     previous_timestamps |-> map_insert(self.previous_timestamps, key, timestamp)]

\* calculate_and_update that stores only when a non-zero rate was computed
calculate_and_update_skip(self, key, current_value, current_time) ==
    LET rate == calculate_rate(self, key, current_value, current_time)
    IN  [self |-> IF rate = Some(Zero) THEN self
                  ELSE update(self, key, current_value, current_time),
         rate |-> rate]

\* RateCalculator::calculate_and_update: the new state and the returned rate
calculate_and_update(self, key, current_value, current_time) ==
    LET rate == calculate_rate(self, key, current_value, current_time)
    IN  [self |-> update(self, key, current_value, current_time),
         rate |-> rate]

\* RateCalculator::reset
reset(self) == [previous_values |-> EmptyMap, previous_timestamps |-> EmptyMap]

\* RateCalculator::has_previous_data
has_previous_data(self, key) ==
    key \in DOMAIN self.previous_values /\ key \in DOMAIN self.previous_timestamps

---------------------------------------------------------------------------
(* Cache<T>; instant is what Instant::now() returns inside the call *)

\* Cache::new
Cache_new(default_ttl) == [data |-> EmptyMap, default_ttl |-> default_ttl]

\* get that still answers at the expiry instant
get_inclusive(self, key, instant) ==
    IF key \in DOMAIN self.data /\ instant <= self.data[key].expires_at
    THEN Some(self.data[key].value)
    ELSE None

\* Cache::get
get(self, key, instant) ==
    IF key \in DOMAIN self.data /\ instant < self.data[key].expires_at
    THEN Some(self.data[key].value)
    ELSE None

\* insert_with_ttl that also evicts the entries that have expired
insert_with_ttl_evicting(self, key, value, ttl, instant) ==
    LET live == {k \in DOMAIN self.data : instant < self.data[k].expires_at}
    IN  [self EXCEPT !.data =
            [k \in live \cup {key} |->
                IF k = key THEN [value |-> value, expires_at |-> instant + ttl]
                ELSE self.data[k]]]

\* insert_with_ttl that leaves the expiry instant of an existing entry alone
insert_with_ttl_keeps_expiry(self, key, value, ttl, instant) ==
    LET expires_at == IF key \in DOMAIN self.data
                      THEN self.data[key].expires_at
                      ELSE instant + ttl
    IN  [self EXCEPT !.data =
            map_insert(self.data, key, [value |-> value, expires_at |-> expires_at])]

\* Cache::insert_with_ttl
insert_with_ttl(self, key, value, ttl, instant) ==
    LET expires_at == instant + ttl
    IN  [self EXCEPT !.data =
            map_insert(self.data, key, [value |-> value, expires_at |-> expires_at])]

\* Cache::insert
insert(self, key, value, instant) ==
    insert_with_ttl(self, key, value, self.default_ttl, instant)

\* cleanup that keeps the entries expiring at this very instant
cleanup_inclusive(self, instant) ==
    [self EXCEPT !.data =
        [k \in {j \in DOMAIN self.data : instant <= self.data[j].expires_at}
            |-> self.data[k]]]

\* Cache::cleanup: retain the entries with now < expires_at
cleanup(self, instant) ==
    [self EXCEPT !.data =
        [k \in {j \in DOMAIN self.data : instant < self.data[j].expires_at}
            |-> self.data[k]]]

\* clear that calls HashMap::shrink_to_fit, which drops no entry
clear_shrink_to_fit(self) == self

\* Cache::clear
clear(self) == [self EXCEPT !.data = EmptyMap]

\* Cache::len
len(self) == Cardinality(DOMAIN self.data)

\* Cache::is_empty
is_empty(self) == DOMAIN self.data = {}

---------------------------------------------------------------------------
(* Text: tokens and lines *)

\* a word that is no number, e.g. "hits", "abc", "0x01"
W(name) == [kind |-> "word", name |-> name, val |-> 0]
\* an unsigned decimal integer literal within u64, e.g. "1247"
I(n) == [kind |-> "int", name |-> "", val |-> n]
\* a decimal literal with a fraction part, e.g. "100.0"
D(n) == [kind |-> "dec", name |-> "", val |-> n]
\* a number followed by one letter, e.g. "12M"
B(n, unit) == [kind |-> "bw", name |-> unit, val |-> n]

\* str::parse::<u64>
parse_u64(tok) == IF tok.kind = "int" THEN Some(tok.val) ELSE None
\* str::parse::<f64>
parse_f64(tok) == IF tok.kind \in {"int", "dec"} THEN Some(Frac(tok.val, 1)) ELSE None

Line(indent, parts) == [indent |-> indent, parts |-> parts]
\* str::trim on a line: the leading white space goes, the tokens stay
trim(line) == [line EXCEPT !.indent = FALSE]
\* line.is_empty() after trim
line_is_empty(line) == ~line.indent /\ Len(line.parts) = 0
\* the words of the texts that have another word as a proper prefix
ProperPrefixes ==
    {<<"named", "name">>, <<"l2_size_x", "l2_size">>, <<"mirror-1", "mirror-">>,
     <<"mirror-2", "mirror-">>, <<"logstore", "logs">>}
\* str::starts_with between two words
starts_with(word, prefix) == word = prefix \/ <<word, prefix>> \in ProperPrefixes
\* the words of the texts that hold another word elsewhere than at their start
ProperInfixes == {<<"old-mirror-1", "mirror-1">>, <<"old-mirror-1", "mirror-">>}
\* str::contains between two words
contains(word, part) == starts_with(word, part) \/ <<word, part>> \in ProperInfixes
\* line.starts_with(prefix), the prefix a word: the line begins with no white
\* space and its first token begins with the prefix
line_starts_with(line, prefix) ==
    /\ ~line.indent
    /\ Len(line.parts) >= 1
    /\ line.parts[1].kind = "word"
    /\ starts_with(line.parts[1].name, prefix)

---------------------------------------------------------------------------
(* Results: ZfsResult<T> and a panic *)

Ok(x) == [tag |-> "Ok", err |-> "", val |-> x]
Err(kind) == [tag |-> "Err", err |-> kind, val |-> <<>>]
Panic == [tag |-> "Panic", err |-> "attempt to add with overflow", val |-> <<>>]

---------------------------------------------------------------------------
(* Kernel statistics parsing: collect_arc_stats_from_proc, collect_l2arc_stats *)

ArcFields0 == [hits |-> 0, misses |-> 0, size |-> 0, c_max |-> 0, read_ops |-> 0]

\* match parts[0] { "hits" => hits = value, ... _ => {} }
arc_assign(acc, name, value) ==
    CASE name = "hits" -> [acc EXCEPT !.hits = value]
      [] name = "misses" -> [acc EXCEPT !.misses = value]
      [] name = "size" -> [acc EXCEPT !.size = value]
      [] name = "c_max" -> [acc EXCEPT !.c_max = value]
      [] name = "read_ops" -> [acc EXCEPT !.read_ops = value]
      [] OTHER -> acc

\* the for loop over content.lines(): Ok(fields) or the ParseError of the
\* first line whose third token is no u64
RECURSIVE arc_kstat_loop(_, _)
arc_kstat_loop(lines, acc) ==
    IF lines = <<>> THEN Ok(acc)
    ELSE LET line == trim(Head(lines))
         IN  IF line_is_empty(line) \/ line_starts_with(line, "name")
             THEN arc_kstat_loop(Tail(lines), acc)
             ELSE IF Len(line.parts) >= 3
                  THEN LET value == parse_u64(line.parts[3])
                       IN  IF is_none(value) THEN Err("ParseError")
                           ELSE arc_kstat_loop(Tail(lines),
                                    arc_assign(acc, line.parts[1].name, unwrap(value)))
                  ELSE arc_kstat_loop(Tail(lines), acc)

\* u64 + u64: with overflow checks (debug build) an overflow panics, without
\* them (release build) it wraps
add_u64(a, b, checks) ==
    IF a + b <= U64Max THEN Some(a + b)
    ELSE IF checks THEN None ELSE Some((a + b) % (U64Max + 1))

\* the hit rate in percent: (hits as f64 / total as f64) * 100.0, or 0.0
hit_rate_of(hits, total) == IF total > 0 THEN Frac(hits * 100, total) ELSE Zero

\* what collect_arc_stats_from_proc makes of the file's content before the
\* rate calculation: Ok([hit_rate, size, target, read_ops_total]), Err or Panic
arc_from_kstat(content, checks) ==
    LET parsed == arc_kstat_loop(content, ArcFields0)
    IN  IF parsed.tag = "Err" THEN parsed
        ELSE LET f == parsed.val
                 total == add_u64(f.hits, f.misses, checks)
             IN  IF is_none(total) THEN Panic
                 ELSE Ok([hit_rate |-> hit_rate_of(f.hits, unwrap(total)),
                          size |-> f.size,
                          target |-> f.c_max,
                          read_ops |-> f.read_ops])

L2Fields0 == [l2_hits |-> 0, l2_misses |-> 0, l2_size |-> 0, l2_read_bytes |-> 0]

l2_assign(acc, name, value) ==
    CASE name = "l2_hits" -> [acc EXCEPT !.l2_hits = value]
      [] name = "l2_misses" -> [acc EXCEPT !.l2_misses = value]
      [] name = "l2_size" -> [acc EXCEPT !.l2_size = value]
      [] name = "l2_read_bytes" -> [acc EXCEPT !.l2_read_bytes = value]
      [] OTHER -> acc

RECURSIVE l2_kstat_loop(_, _)
l2_kstat_loop(lines, acc) ==
    IF lines = <<>> THEN Ok(acc)
    ELSE LET line == trim(Head(lines))
         IN  IF line_is_empty(line) \/ line_starts_with(line, "name")
             THEN l2_kstat_loop(Tail(lines), acc)
             ELSE IF Len(line.parts) >= 3
                  THEN LET value == parse_u64(line.parts[3])
                       IN  IF is_none(value) THEN Err("ParseError")
                           ELSE l2_kstat_loop(Tail(lines),
                                    l2_assign(acc, line.parts[1].name, unwrap(value)))
                  ELSE l2_kstat_loop(Tail(lines), acc)

\* arc_content.lines().any(|line| line.starts_with("l2_size")): on the lines
\* as they are, not trimmed
has_l2arc(content) ==
    \E i \in 1 .. Len(content) : line_starts_with(content[i], "l2_size")

\* what collect_l2arc_stats makes of the file's content before the rate
\* calculation: Ok(None), Ok(Some([hit_rate, size, total_ops, read_bytes_total])),
\* Err or Panic
l2_from_kstat(content, checks) ==
    IF ~has_l2arc(content) THEN Ok(None)
    ELSE LET parsed == l2_kstat_loop(content, L2Fields0)
         IN  IF parsed.tag = "Err" THEN parsed
             ELSE LET f == parsed.val
                      total == add_u64(f.l2_hits, f.l2_misses, checks)
                  IN  IF is_none(total) THEN Panic
                      ELSE Ok(Some([hit_rate |-> hit_rate_of(f.l2_hits, unwrap(total)),
                                    size |-> f.l2_size,
                                    total_ops |-> unwrap(total),
                                    read_bytes |-> f.l2_read_bytes]))

---------------------------------------------------------------------------
(* ARC statistics: collect_arc_stats and its two sources *)

\* Option::unwrap_or
unwrap_or(o, default) == IF is_some(o) THEN unwrap(o) ELSE default

\* `rate as u64` that rounds up instead of truncating
as_u64_ceiling(rate) ==
    LET q == (rate.num + rate.den - 1) \div rate.den
    IN  IF q > U64Max THEN U64Max ELSE q

\* `rate as u64` for a rate that is not negative: the fraction part is cut
\* off and a value above u64::MAX becomes u64::MAX
as_u64(rate) ==
    LET q == rate.num \div rate.den
    IN  IF q > U64Max THEN U64Max ELSE q

\* collect_arc_stats_from_proc on the file's content (None: the file cannot
\* be read): the result and the rate calculator after it
collect_arc_stats_from_proc(rc, file, instant, checks) ==
    IF is_none(file) THEN [result |-> Err("FilesystemError"), rc |-> rc]
    ELSE LET k == arc_from_kstat(unwrap(file), checks)
         IN  IF k.tag # "Ok" THEN [result |-> k, rc |-> rc]
             ELSE LET cu == calculate_and_update(rc, "arc_read_ops", k.val.read_ops, instant)
                  IN  [result |-> Ok([k.val EXCEPT
                                         !.read_ops = as_u64(unwrap_or(cu.rate, Zero))]),
                       rc |-> cu.self]

\* the command variants of collect_arc_stats_from_arcstat, in the order tried
commands ==
    << [cmd |-> "arcstat", args |-> <<"-f", "hit%,miss%,read,arcsz,c", "1", "1">>],
       [cmd |-> "arcstat", args |-> <<"1", "1">>],
       [cmd |-> "echo", args |-> <<"|", "arcstat">>] >>

\* the timeout of one arcstat invocation, in seconds
ArcstatTimeoutSecs == 3

\* the time-to-live of the collector's cache, in seconds
CollectorCacheTtlSecs == 30
\* a collector's cache whose entries live for 30 ms, not 30 s: less than a tick
Collector_cache_millis == Cache_new(0)
\* ZfsStatsCollector::new: the collector's cache
Collector_cache == Cache_new(CollectorCacheTtlSecs * TicksPerSec)

\* CommandExecutor::execute_with_timeout started at `instant`: the invocation
\* in flight, its timer set
execute_with_timeout(command, timeout, instant) ==
    [cmd |-> command.cmd, args |-> command.args, deadline |-> Some(instant + timeout)]

\* CommandExecutor::execute: the invocation in flight, no timer
execute(cmd, args) == [cmd |-> cmd, args |-> args, deadline |-> None]

\* parse_arcstat_output on the output's tokens
parse_arcstat_output(output) ==
    IF Len(output) < 4 THEN Err("InvalidFormat")
    ELSE IF is_none(parse_f64(output[1])) THEN Err("ParseError")
    ELSE IF is_none(parse_u64(output[2])) THEN Err("ParseError")
    ELSE IF is_none(parse_u64(output[3])) THEN Err("ParseError")
    ELSE IF is_none(parse_u64(output[4])) THEN Err("ParseError")
    ELSE Ok([hit_rate |-> unwrap(parse_f64(output[1])),
             size |-> output[3].val,
             target |-> output[4].val,
             read_ops |-> output[2].val])

\* what the loop of collect_arc_stats_from_arcstat does with the outcome of
\* variant i, passing timeout errors on to the caller
arcstat_outcome_timeout_surfacing(rc, i, outcome, instant) ==
    IF outcome.tag = "Err" /\ outcome.err = "TimeoutError"
    THEN [done |-> TRUE, result |-> outcome, rc |-> rc, i |-> i]
    ELSE IF outcome.tag = "Ok" /\ parse_arcstat_output(outcome.val).tag = "Ok"
    THEN LET stats == parse_arcstat_output(outcome.val).val
             cu == calculate_and_update(rc, "arc_read_ops", stats.read_ops, instant)
         IN  [done |-> TRUE,
              result |-> Ok([stats EXCEPT !.read_ops = as_u64(unwrap_or(cu.rate, Zero))]),
              rc |-> cu.self, i |-> i]
    ELSE IF i < Len(commands)
    THEN [done |-> FALSE, result |-> outcome, rc |-> rc, i |-> i + 1]
    ELSE [done |-> TRUE, result |-> Err("SubsystemUnavailable"), rc |-> rc, i |-> i]

\* the loop that goes on to the next variant after a success as well
arcstat_outcome_exhaustive(rc, i, outcome, instant) ==
    LET parsed == IF outcome.tag = "Ok" THEN parse_arcstat_output(outcome.val) ELSE outcome
        cu == IF parsed.tag = "Ok"
              THEN calculate_and_update(rc, "arc_read_ops", parsed.val.read_ops, instant)
              ELSE [self |-> rc, rate |-> None]
    IN  IF i < Len(commands)
        THEN [done |-> FALSE, result |-> outcome, rc |-> cu.self, i |-> i + 1]
        ELSE IF parsed.tag = "Ok"
        THEN [done |-> TRUE,
              result |-> Ok([parsed.val EXCEPT !.read_ops = as_u64(unwrap_or(cu.rate, Zero))]),
              rc |-> cu.self, i |-> i]
        ELSE [done |-> TRUE, result |-> Err("SubsystemUnavailable"), rc |-> rc, i |-> i]

\* what the loop of collect_arc_stats_from_arcstat does with the outcome of
\* variant i (Ok(output), or the executor's Err): whether the method returns,
\* its result, the rate calculator, and the variant to invoke next
arcstat_outcome(rc, i, outcome, instant) ==
    IF outcome.tag = "Ok" /\ parse_arcstat_output(outcome.val).tag = "Ok"
    THEN LET stats == parse_arcstat_output(outcome.val).val
             cu == calculate_and_update(rc, "arc_read_ops", stats.read_ops, instant)
         IN  [done |-> TRUE,
              result |-> Ok([stats EXCEPT !.read_ops = as_u64(unwrap_or(cu.rate, Zero))]),
              rc |-> cu.self, i |-> i]
    ELSE IF i < Len(commands)
    THEN [done |-> FALSE, result |-> outcome, rc |-> rc, i |-> i + 1]
    ELSE [done |-> TRUE, result |-> Err("SubsystemUnavailable"), rc |-> rc, i |-> i]

---------------------------------------------------------------------------
(* L2ARC statistics: collect_l2arc_stats *)

\* collect_l2arc_stats that reports an unreadable file as 'not present'
collect_l2arc_stats_absent_on_error(rc, file, instant, checks) ==
    [result |-> IF is_none(file) THEN Ok(None) ELSE Err("ParseError"), rc |-> rc]

\* collect_l2arc_stats that stores the samples of a pool without L2ARC too
collect_l2arc_stats_samples_when_absent(rc, file, instant, checks) ==
    IF is_none(file) THEN [result |-> Err("FilesystemError"), rc |-> rc]
    ELSE LET k == l2_from_kstat(unwrap(file), checks)
         IN  IF k.tag # "Ok" THEN [result |-> k, rc |-> rc]
             ELSE LET ops == calculate_and_update(rc, "l2_total_ops", 0, instant)
                      bytes == calculate_and_update(ops.self, "l2_read_bytes", 0, instant)
                  IN  [result |-> IF is_none(k.val) THEN k
                                  ELSE Ok(Some([hit_rate |-> unwrap(k.val).hit_rate,
                                                size |-> unwrap(k.val).size,
                                                read_bytes |-> 0,
                                                total_ops |-> 0])),
                       rc |-> bytes.self]

\* collect_l2arc_stats on the file's content (None: the file cannot be read):
\* the result and the rate calculator after it
collect_l2arc_stats(rc, file, instant, checks) ==
    IF is_none(file) THEN [result |-> Err("FilesystemError"), rc |-> rc]
    ELSE LET k == l2_from_kstat(unwrap(file), checks)
         IN  IF k.tag # "Ok" \/ is_none(k.val) THEN [result |-> k, rc |-> rc]
             ELSE LET f == unwrap(k.val)
                      ops == calculate_and_update(rc, "l2_total_ops", f.total_ops, instant)
                      bytes == calculate_and_update(ops.self, "l2_read_bytes",
                                                    f.read_bytes, instant)
                  IN  [result |-> Ok(Some([hit_rate |-> f.hit_rate,
                                           size |-> f.size,
                                           read_bytes |-> as_u64(unwrap_or(bytes.rate, Zero)),
                                           total_ops |-> as_u64(unwrap_or(ops.rate, Zero))])),
                       rc |-> bytes.self]

---------------------------------------------------------------------------
(* SLOG statistics: collect_slog_stats and its parsers *)

\* line.contains("ONLINE")
contains_online(line) == \E j \in 1 .. Len(line.parts) : line.parts[j] = W("ONLINE")

\* line.starts_with(char::is_alphabetic): the first token is a word that
\* begins with a letter
starts_alphabetic(line) ==
    /\ ~line.indent
    /\ Len(line.parts) >= 1
    /\ line.parts[1].kind = "word"
    /\ line.parts[1].name \notin {"-", "-----", ""}

\* parse_slog_device_from_status: the loop over the lines of the status text
RECURSIVE slog_device_loop(_, _)
slog_device_loop(lines, in_logs_section) ==
    IF lines = <<>> THEN None
    ELSE LET line == trim(Head(lines))
         IN  IF line_starts_with(line, "logs") THEN slog_device_loop(Tail(lines), TRUE)
             ELSE IF ~in_logs_section \/ line_is_empty(line)
             THEN slog_device_loop(Tail(lines), in_logs_section)
             ELSE IF /\ line_starts_with(line, "mirror-") \/ contains_online(line)
                     /\ line.parts[1].kind = "word"
                     /\ starts_with(line.parts[1].name, "mirror-")
             THEN Some(line.parts[1].name)
             ELSE IF /\ starts_alphabetic(line)
                     /\ ~contains_online(line)
                     /\ ~line_starts_with(line, "mirror-")
             THEN None
             ELSE slog_device_loop(Tail(lines), TRUE)

parse_slog_device_from_status(status_output) == Ok(slog_device_loop(status_output, FALSE))

\* the multiplier of a unit letter, 0 for any other letter
multiplier(unit) ==
    CASE unit \in {"B", "b"} -> 1
      [] unit \in {"K", "k"} -> 1024
      [] unit \in {"M", "m"} -> 1024 * 1024
      [] unit \in {"G", "g"} -> 1024 * 1024 * 1024
      [] unit \in {"T", "t"} -> 1024 * 1024 * 1024 * 1024
      [] OTHER -> 0

\* parse_bandwidth on one token; a number with a unit stands for a literal
\* whose byte count is below u64::MAX
parse_bandwidth(tok) ==
    IF tok \in {W(""), W("-")} THEN Ok(0)
    ELSE IF tok.kind = "bw" /\ multiplier(tok.name) > 0
    THEN Ok(tok.val * multiplier(tok.name))
    ELSE IF tok.kind = "int" THEN Ok(tok.val)
    ELSE Err("ParseError")

\* line.contains(device_name) that looks at the first token only and wants
\* it equal to the name
contains_device_first_token(line, device_name) ==
    Len(line.parts) >= 1 /\ line.parts[1] = W(device_name)

\* line.contains(device_name): some token of the line contains the name (a
\* name has no white space and is no number)
contains_device(line, device_name) ==
    \E j \in 1 .. Len(line.parts) :
        line.parts[j].kind = "word" /\ contains(line.parts[j].name, device_name)

\* write_ops and write_bw of a line of seven fields or more
iostat_fields(line) ==
    IF is_none(parse_u64(line.parts[5])) THEN Err("ParseError")
    ELSE IF parse_bandwidth(line.parts[7]).tag = "Err" THEN Err("ParseError")
    ELSE Ok(<<line.parts[5].val, parse_bandwidth(line.parts[7]).val>>)

\* parse_slog_stats_from_iostat: the loop over the lines of the iostat text
RECURSIVE slog_stats_loop(_, _, _)
slog_stats_loop(lines, device_name, in_device_section) ==
    IF lines = <<>> THEN Ok(<<0, 0>>)
    ELSE LET line == trim(Head(lines))
         IN  IF contains_device(line, device_name)
             THEN IF Len(line.parts) >= 7 THEN iostat_fields(line)
                  ELSE slog_stats_loop(Tail(lines), device_name, TRUE)
             ELSE IF /\ in_device_section
                     /\ ~line_is_empty(line)
                     /\ ~(line.parts[1].kind = "word" /\ line.parts[1].name \in {"-", "-----"})
             THEN IF Len(line.parts) >= 7 THEN iostat_fields(line) ELSE Ok(<<0, 0>>)
             ELSE slog_stats_loop(Tail(lines), device_name, in_device_section)

\* parse_slog_stats_from_iostat that fails when no line holds the device name
parse_slog_stats_from_iostat_missing_is_error(iostat_output, device_name) ==
    IF \A j \in 1 .. Len(iostat_output) : ~contains_device(iostat_output[j], device_name)
    THEN Err("ParseError")
    ELSE slog_stats_loop(iostat_output, device_name, FALSE)

parse_slog_stats_from_iostat(iostat_output, device_name) ==
    slog_stats_loop(iostat_output, device_name, FALSE)

\* a write-operations key that is the ARC's read-operations key
slog_write_ops_key_shared(device_name) == "arc_read_ops"

\* format!("slog_{}_write_ops", device_name)
slog_write_ops_key(device_name) == "slog_" \o device_name \o "_write_ops"

\* a write-bandwidth key that leaves the device name out
slog_write_bw_key_unqualified(device_name) == "slog_write_bw"

\* format!("slog_{}_write_bw", device_name)
slog_write_bw_key(device_name) == "slog_" \o device_name \o "_write_bw"

\* collect_slog_stats that reports the cumulative counters instead of rates
slog_from_iostat_cumulative(rc, iostat_output, device_name, instant) ==
    LET parsed == parse_slog_stats_from_iostat(iostat_output, device_name)
    IN  IF parsed.tag = "Err" THEN [result |-> parsed, rc |-> rc]
        ELSE LET ops == calculate_and_update(rc, slog_write_ops_key(device_name),
                                             parsed.val[1], instant)
                 bw == calculate_and_update(ops.self, slog_write_bw_key(device_name),
                                            parsed.val[2], instant)
             IN  [result |-> Ok(Some([device |-> device_name,
                                      write_ops |-> parsed.val[1],
                                      write_bw |-> parsed.val[2],
                                      utilization |-> Zero,
                                      latency |-> Zero])),
                  rc |-> bw.self]

\* collect_slog_stats that takes the rates before it looks at the parser's
\* result, a failed parse counting as (0, 0)
slog_from_iostat_rates_first(rc, iostat_output, device_name, instant) ==
    LET parsed == parse_slog_stats_from_iostat(iostat_output, device_name)
        totals == IF parsed.tag = "Err" THEN <<0, 0>> ELSE parsed.val
        ops == calculate_and_update(rc, slog_write_ops_key(device_name),
                                    totals[1], instant)
        bw == calculate_and_update(ops.self, slog_write_bw_key(device_name),
                                   totals[2], instant)
    IN  [result |-> IF parsed.tag = "Err" THEN parsed
                    ELSE Ok(Some([device |-> device_name,
                                  write_ops |-> as_u64(unwrap_or(ops.rate, Zero)),
                                  write_bw |-> as_u64(unwrap_or(bw.rate, Zero)),
                                  utilization |-> Zero,
                                  latency |-> Zero])),
         rc |-> bw.self]

\* collect_slog_stats from the I/O statistics text on: the result and the
\* rate calculator after it
slog_from_iostat(rc, iostat_output, device_name, instant) ==
    LET parsed == parse_slog_stats_from_iostat(iostat_output, device_name)
    IN  IF parsed.tag = "Err" THEN [result |-> parsed, rc |-> rc]
        ELSE LET ops == calculate_and_update(rc, slog_write_ops_key(device_name),
                                             parsed.val[1], instant)
                 bw == calculate_and_update(ops.self, slog_write_bw_key(device_name),
                                            parsed.val[2], instant)
             IN  [result |-> Ok(Some([device |-> device_name,
                                      write_ops |-> as_u64(unwrap_or(ops.rate, Zero)),
                                      write_bw |-> as_u64(unwrap_or(bw.rate, Zero)),
                                      utilization |-> Zero,
                                      latency |-> Zero])),
                  rc |-> bw.self]

---------------------------------------------------------------------------
(* The RateCalculator driven by arbitrary calls *)

\* what a call found stored for its key
Call(op, key, value, time) ==
    [op |-> op, key |-> key, value |-> value, time |-> time,
     prev_value |-> map_get(rate_calculator.previous_values, key),
     prev_time |-> map_get(rate_calculator.previous_timestamps, key),
     observed |-> is_some(rc_obs[key])]

NoCall ==
    [op |-> "new", key |-> "k1", value |-> 0, time |-> 0,
     prev_value |-> None, prev_time |-> None, observed |-> FALSE]

\* calculator.calculate_rate(key, value, time): reads, stores nothing
RcCalculateRate(key, value, time) ==
    /\ rc_ret' = calculate_rate(rate_calculator, key, value, time)
    /\ rc_solo_ret' = calculate_rate(rc_solo[key], key, value, time)
    /\ rc_call' = Call("calculate_rate", key, value, time)
    /\ UNCHANGED <<rate_calculator, rc_obs, rc_solo>>
    /\ UNCHANGED <<cache_vars, col_vars>>

\* calculator.update(key, value, time)
RcUpdate(key, value, time) ==
    /\ rate_calculator' = update(rate_calculator, key, value, time)
    /\ rc_solo' = [rc_solo EXCEPT ![key] = update(@, key, value, time)]
    /\ rc_obs' = [rc_obs EXCEPT ![key] = Some(<<value, time>>)]
    /\ rc_call' = Call("update", key, value, time)
    /\ rc_ret' = None
    /\ rc_solo_ret' = None
    /\ UNCHANGED <<cache_vars, col_vars>>

\* calculator.calculate_and_update(key, value, time)
RcCalculateAndUpdate(key, value, time) ==
    LET r == calculate_and_update(rate_calculator, key, value, time)
        s == calculate_and_update(rc_solo[key], key, value, time)
    IN  /\ rate_calculator' = r.self
        /\ rc_ret' = r.rate
        /\ rc_solo' = [rc_solo EXCEPT ![key] = s.self]
        /\ rc_solo_ret' = s.rate
        /\ rc_obs' = [rc_obs EXCEPT ![key] = Some(<<value, time>>)]
        /\ rc_call' = Call("calculate_and_update", key, value, time)
        /\ UNCHANGED <<cache_vars, col_vars>>

\* calculator.reset()
RcReset ==
    /\ rate_calculator' = reset(rate_calculator)
    /\ rc_solo' = [k \in Keys |-> reset(rc_solo[k])]
    /\ rc_obs' = [k \in Keys |-> None]
    /\ rc_call' = [NoCall EXCEPT !.op = "reset"]
    /\ rc_ret' = None
    /\ rc_solo_ret' = None
    /\ UNCHANGED <<cache_vars, col_vars>>

RcNext ==
    \/ \E key \in Keys, value \in Values, time \in Instants :
          RcCalculateRate(key, value, time)
    \/ \E key \in Keys, value \in Values, time \in Instants :
          RcUpdate(key, value, time)
    \/ \E key \in Keys, value \in Values, time \in Instants :
          RcCalculateAndUpdate(key, value, time)
    \/ RcReset

---------------------------------------------------------------------------
(* Claims about the RateCalculator *)

RcRateCall == rc_call.op \in {"calculate_rate", "calculate_and_update"}
RcHadEntry == is_some(rc_call.prev_value) /\ is_some(rc_call.prev_time)
RcStored(key) ==
    <<map_get(rate_calculator.previous_values, key),
      map_get(rate_calculator.previous_timestamps, key)>>

\* C1: calculate_and_update for a key not observed since the last reset (or
\* never) returns None and stores (v, t); for a key observed since the last
\* reset it returns Some rate, never None.
C1_FirstObservation ==
    rc_call.op = "calculate_and_update" =>
        /\ ~rc_call.observed =>
              /\ is_none(rc_call.prev_value) /\ is_none(rc_call.prev_time)
              /\ rc_ret = None
        /\ rc_call.observed => is_some(rc_ret)
        /\ RcStored(rc_call.key) = <<Some(rc_call.value), Some(rc_call.time)>>

C1_Witness ==
    /\ rc_call.op = "calculate_and_update"
    /\ rc_call.observed
    /\ is_some(rc_ret)
    /\ RcStored(rc_call.key) = <<Some(rc_call.value), Some(rc_call.time)>>

\* C2: every returned rate is >= 0, and an observation whose value is lower
\* than the stored one returns exactly 0, also for a drop from U64Max to 0.
C2_DecreaseClamped ==
    /\ is_some(rc_ret) => unwrap(rc_ret).num >= 0 /\ unwrap(rc_ret).den > 0
    /\ (RcRateCall /\ RcHadEntry /\ rc_call.value < unwrap(rc_call.prev_value))
          => rc_ret = Some(Zero)

C2_Witness ==
    /\ rc_call.op = "calculate_and_update"
    /\ rc_call.prev_value = Some(U64Max)
    /\ rc_call.value = 0
    /\ is_some(rc_call.prev_time) /\ rc_call.time > unwrap(rc_call.prev_time)
    /\ rc_ret = Some(Zero)

\* C3: an observation whose timestamp is equal to or earlier than the stored
\* one returns exactly 0 whatever the value delta, and no returned rate is a
\* quotient by a zero or negative duration.
C3_NonPositiveTimeDelta ==
    /\ (RcRateCall /\ RcHadEntry /\ rc_call.time <= unwrap(rc_call.prev_time))
          => rc_ret = Some(Zero)
    /\ is_some(rc_ret) => unwrap(rc_ret).den > 0

C3_Witness ==
    /\ rc_call.op = "calculate_and_update"
    /\ RcHadEntry
    /\ rc_call.time < unwrap(rc_call.prev_time)
    /\ rc_call.value > unwrap(rc_call.prev_value)
    /\ rc_ret = Some(Zero)

\* C4: with (v0, t0) stored, an observation (v1, t1), v1 >= v0 and t1 > t0,
\* returns the quotient (v1 - v0) / ((t1 - t0) / TicksPerSec), in lowest
\* terms: an increase of d over one second returns d, and an unchanged value
\* returns 0.
C4_RateValue ==
    (RcRateCall /\ RcHadEntry
        /\ rc_call.value >= unwrap(rc_call.prev_value)
        /\ rc_call.time > unwrap(rc_call.prev_time))
    => LET dv == rc_call.value - unwrap(rc_call.prev_value)
           dt == rc_call.time - unwrap(rc_call.prev_time)
       IN  /\ is_some(rc_ret)
           /\ unwrap(rc_ret).den > 0
           /\ unwrap(rc_ret).num * dt = dv * TicksPerSec * unwrap(rc_ret).den
           /\ Gcd(unwrap(rc_ret).num, unwrap(rc_ret).den) = 1
           /\ dt = TicksPerSec => rc_ret = Some([num |-> dv, den |-> 1])
           /\ dv = 0 => rc_ret = Some(Zero)

C4_Witness ==
    /\ rc_call.op = "calculate_and_update"
    /\ RcHadEntry
    /\ rc_call.value = unwrap(rc_call.prev_value) + 1
    /\ rc_call.time = unwrap(rc_call.prev_time) + TicksPerSec
    /\ rc_ret = Some([num |-> 1, den |-> 1])

\* C5: the (value, timestamp) stored for each key is that key's most recent
\* observation, whatever that observation returned, and a key has an entry
\* if and only if it was observed since the last reset.
C5_StoredIsLastObservation ==
    \A k \in Keys :
        /\ has_previous_data(rate_calculator, k) <=> is_some(rc_obs[k])
        /\ k \in DOMAIN rate_calculator.previous_values <=> is_some(rc_obs[k])
        /\ k \in DOMAIN rate_calculator.previous_timestamps <=> is_some(rc_obs[k])
        /\ is_some(rc_obs[k]) =>
              RcStored(k) = <<Some(unwrap(rc_obs[k])[1]), Some(unwrap(rc_obs[k])[2])>>

C5_Witness ==
    /\ rc_call.op = "calculate_and_update"
    /\ RcHadEntry
    /\ rc_call.value < unwrap(rc_call.prev_value)
    /\ rc_ret = Some(Zero)
    /\ RcStored(rc_call.key) = <<Some(rc_call.value), Some(rc_call.time)>>
    /\ \E k \in Keys : ~has_previous_data(rate_calculator, k)

\* a call on one key leaves what is stored for every other key unchanged
RcFrame ==
    \A k \in Keys :
        (rc_call'.op \in {"calculate_rate", "update", "calculate_and_update"}
            /\ rc_call'.key # k)
        => /\ map_get(rate_calculator'.previous_values, k)
                = map_get(rate_calculator.previous_values, k)
           /\ map_get(rate_calculator'.previous_timestamps, k)
                = map_get(rate_calculator.previous_timestamps, k)

\* the calculator shared by the keys agrees with each key's own calculator
RcSoloAgrees ==
    /\ rc_ret = rc_solo_ret
    /\ \A k \in Keys :
          /\ map_get(rate_calculator.previous_values, k)
                = map_get(rc_solo[k].previous_values, k)
          /\ map_get(rate_calculator.previous_timestamps, k)
                = map_get(rc_solo[k].previous_timestamps, k)

\* C6: an observation for key k leaves the stored (value, timestamp) of every
\* other key unchanged, and each key gets the rates and the stored state it
\* would get from a calculator that is given that key's calls alone.
C6_KeyIndependence == []RcSoloAgrees /\ [][RcFrame]_vars

C6_Witness ==
    /\ rc_call.op = "calculate_and_update"
    /\ rc_call.key = "k1"
    /\ RcHadEntry
    /\ is_some(rc_ret) /\ rc_ret # Some(Zero)
    /\ has_previous_data(rate_calculator, "k2")
    /\ rate_calculator.previous_timestamps["k2"] > rc_call.time
    /\ rate_calculator.previous_values["k2"] > rc_call.value

---------------------------------------------------------------------------
(* The Cache driven by arbitrary calls while the clock advances *)

\* the entries a get would still return at this instant
Live(self, instant) == {k \in DOMAIN self.data : instant < self.data[k].expires_at}

CacheStep(op, key) ==
    [op |-> op, key |-> key,
     len_before |-> len(cache),
     live_before |-> Cardinality(Live(cache, now))]

CacheNoCall == [op |-> "new", key |-> "zpool_status", len_before |-> 0, live_before |-> 0]

\* time passes
Tick ==
    /\ now < MaxNow
    /\ now' = now + 1
    /\ cache_call' = [CacheNoCall EXCEPT !.op = "tick"]
    /\ cache_ret' = None
    /\ UNCHANGED <<cache, cache_ins>>
    /\ UNCHANGED <<rc_vars, col_vars>>

\* cache.get(key)
CacheGet(key) ==
    /\ cache_ret' = get(cache, key, now)
    /\ cache_call' = CacheStep("get", key)
    /\ UNCHANGED <<cache, now, cache_ins>>
    /\ UNCHANGED <<rc_vars, col_vars>>

\* cache.insert(key, value)
CacheInsert(key, value) ==
    /\ cache' = insert(cache, key, value, now)
    /\ cache_ins' = [cache_ins EXCEPT ![key] =
                        Some([value |-> value, at |-> now, ttl |-> cache.default_ttl])]
    /\ cache_call' = CacheStep("insert", key)
    /\ cache_ret' = None
    /\ UNCHANGED now
    /\ UNCHANGED <<rc_vars, col_vars>>

\* cache.insert_with_ttl(key, value, ttl)
CacheInsertWithTtl(key, value, ttl) ==
    /\ cache' = insert_with_ttl(cache, key, value, ttl, now)
    /\ cache_ins' = [cache_ins EXCEPT ![key] =
                        Some([value |-> value, at |-> now, ttl |-> ttl])]
    /\ cache_call' = CacheStep("insert_with_ttl", key)
    /\ cache_ret' = None
    /\ UNCHANGED now
    /\ UNCHANGED <<rc_vars, col_vars>>

\* cache.cleanup()
CacheCleanup ==
    /\ cache' = cleanup(cache, now)
    /\ cache_call' = CacheStep("cleanup", "zpool_status")
    /\ cache_ret' = None
    /\ UNCHANGED <<now, cache_ins>>
    /\ UNCHANGED <<rc_vars, col_vars>>

\* cache.clear()
CacheClear ==
    /\ cache' = clear(cache)
    /\ cache_ins' = [k \in CacheKeys |-> None]
    /\ cache_call' = CacheStep("clear", "zpool_status")
    /\ cache_ret' = None
    /\ UNCHANGED now
    /\ UNCHANGED <<rc_vars, col_vars>>

CacheNext ==
    \/ Tick
    \/ \E key \in CacheKeys : CacheGet(key)
    \/ \E key \in CacheKeys, value \in CacheValues : CacheInsert(key, value)
    \/ \E key \in CacheKeys, value \in CacheValues, ttl \in Ttls :
          CacheInsertWithTtl(key, value, ttl)
    \/ CacheCleanup
    \/ CacheClear

---------------------------------------------------------------------------
(* Claims about the Cache *)

\* what get must answer for a key, from the history of inserts alone
CacheExpected(key) ==
    LET ins == cache_ins[key]
    IN  IF is_some(ins) /\ now < unwrap(ins).at + unwrap(ins).ttl
        THEN Some(unwrap(ins).value)
        ELSE None

\* C7: get(key) returns the stored value if and only if an entry for key
\* exists and the current instant is strictly before insert instant + TTL
\* (the default TTL when none was given); an entry inserted with TTL zero is
\* never returned.
C7_GetBeforeExpiry ==
    /\ \A k \in CacheKeys :
          /\ get(cache, k, now) = CacheExpected(k)
          /\ k \in DOMAIN cache.data =>
                /\ is_some(cache_ins[k])
                /\ cache.data[k].value = unwrap(cache_ins[k]).value
                /\ cache.data[k].expires_at
                      = unwrap(cache_ins[k]).at + unwrap(cache_ins[k]).ttl
          /\ (is_some(cache_ins[k]) /\ unwrap(cache_ins[k]).ttl = 0)
                => get(cache, k, now) = None
    /\ cache_call.op = "get" => cache_ret = CacheExpected(cache_call.key)
    /\ cache_call.op = "insert" =>
          unwrap(cache_ins[cache_call.key]).ttl = cache.default_ttl

C7_Witness ==
    /\ cache_call.op = "get"
    /\ cache_ret = None
    /\ cache_call.key \in DOMAIN cache.data
    /\ is_some(cache_ins[cache_call.key])
    /\ unwrap(cache_ins[cache_call.key]).ttl = 0
    /\ unwrap(cache_ins[cache_call.key]).at = now

\* a cleanup step removes the entries with expires_at <= now and no other
CacheCleanupStep ==
    cache_call'.op = "cleanup" =>
        /\ DOMAIN cache'.data
              = {k \in DOMAIN cache.data : ~(cache.data[k].expires_at <= now)}
        /\ \A k \in DOMAIN cache'.data : cache'.data[k] = cache.data[k]
        /\ cache'.default_ttl = cache.default_ttl
        /\ \A k \in CacheKeys : get(cache', k, now') = get(cache, k, now)

\* C8: cleanup() removes exactly the entries whose expiry instant is at or
\* before the current instant and keeps every other entry with its value and
\* expiry; get returns the same for every key right before and right after.
C8_Cleanup == [][CacheCleanupStep]_vars

C8_Witness ==
    /\ cache_call.op = "cleanup"
    /\ cache_call.len_before = 2
    /\ cache_call.live_before = 1
    /\ len(cache) = 1
    /\ \E k \in DOMAIN cache.data : is_some(get(cache, k, now))

\* only cleanup and clear remove entries; get and the clock change nothing
CacheLazyStep ==
    /\ (\E k \in DOMAIN cache.data : k \notin DOMAIN cache'.data)
          => cache_call'.op \in {"cleanup", "clear"}
    /\ cache_call'.op \in {"insert", "insert_with_ttl"} =>
          \A k \in DOMAIN cache.data \ {cache_call'.key} :
              cache'.data[k] = cache.data[k]
    /\ cache_call'.op = "get" => cache' = cache
    /\ now' # now => (cache' = cache /\ len(cache') = len(cache))

\* C9: no operation other than cleanup() and clear() removes an entry; get
\* does not change the store and neither does the passage of time, so an
\* expired entry is still counted by len() while get returns None for it.
C9_LazyExpiry ==
    /\ [][CacheLazyStep]_vars
    /\ [](\A k \in DOMAIN cache.data :
            cache.data[k].expires_at <= now => get(cache, k, now) = None)

C9_Witness ==
    /\ cache_call.op = "get"
    /\ cache_ret = None
    /\ cache_call.key \in DOMAIN cache.data
    /\ cache.data[cache_call.key].expires_at < now
    /\ len(cache) = 2
    /\ cache_call.len_before = 2

\* C10: clear() removes every entry, expired or not; afterwards the store is
\* empty and get returns None for every key until it is inserted again.
C10_Clear ==
    /\ cache_call.op = "clear" => (is_empty(cache) /\ len(cache) = 0)
    /\ \A k \in CacheKeys :
          is_none(cache_ins[k]) =>
              (k \notin DOMAIN cache.data /\ get(cache, k, now) = None)
    /\ (cache_call.op = "get" /\ is_none(cache_ins[cache_call.key]))
          => cache_ret = None

C10_Witness ==
    /\ cache_call.op = "clear"
    /\ cache_call.len_before = 2
    /\ cache_call.live_before = 1
    /\ is_empty(cache)

\* the step is an insert or an insert_with_ttl for this key
InsertFor(key) ==
    /\ cache_call'.op \in {"insert", "insert_with_ttl"}
    /\ cache_call'.key = key

\* an insert for a key stores the new value and the expiry instant now + ttl,
\* whatever was stored for the key before, and a get at the same instant
\* returns the new value unless the ttl is zero
InsertReplaces(key) ==
    InsertFor(key) =>
        \E value \in CacheValues, ttl \in Ttls \cup {cache.default_ttl} :
            /\ cache_call'.op = "insert" => ttl = cache.default_ttl
            /\ cache'.data[key] = [value |-> value, expires_at |-> now + ttl]
            /\ cache_ins'[key] = Some([value |-> value, at |-> now, ttl |-> ttl])
            /\ get(cache', key, now') = IF ttl > 0 THEN Some(value) ELSE None

\* a key for which get answers None stays so over every step that is not an
\* insert for it
AbsentStays(key) ==
    (is_none(get(cache, key, now)) /\ ~InsertFor(key))
        => is_none(get(cache', key, now'))

C39_Step == \A k \in CacheKeys : InsertReplaces(k) /\ AbsentStays(k)

\* between an insert for a key and the next insert or clear, get answers the
\* inserted value exactly while now is before the insert instant plus the ttl
ValueUntilExpiry ==
    /\ \A k \in CacheKeys :
          is_some(cache_ins[k]) =>
              LET ins == unwrap(cache_ins[k])
              IN  /\ now < ins.at + ins.ttl => get(cache, k, now) = Some(ins.value)
                  /\ now >= ins.at + ins.ttl => get(cache, k, now) = None
    /\ cache_call.op = "get" => cache_ret = get(cache, cache_call.key, now)

\* C39: once get(key) has returned None because the entry's expiry instant
\* passed, it returns None at every later instant until a new insert for that
\* key; an insert for an existing key, expired or not, replaces both value and
\* expiry instant, and get then returns the new value until the new expiry.
C39_ExpiryPermanent == []ValueUntilExpiry /\ [][C39_Step]_vars

\* an insert has replaced the entry of a key that was stored and expired,
\* and a get for the key answers the new value
C39_Witness ==
    /\ cache_call.op = "insert_with_ttl"
    /\ cache_call.len_before = 1
    /\ cache_call.live_before = 0
    /\ DOMAIN cache.data = {cache_call.key}
    /\ unwrap(cache_ins[cache_call.key]).at > 0
    /\ get(cache, cache_call.key, now) = Some("out2")

---------------------------------------------------------------------------
(* The collector's calls *)

\* the rate calculator's and the cache's history variables, which the
\* collector leaves alone
rc_ghost == <<rc_ret, rc_call, rc_obs, rc_solo, rc_solo_ret>>
cache_ghost == <<cache_ret, cache_call, cache_ins>>

\* no call yet: the method, the instant it captured, the loop index, the
\* command in flight, the locals alive across an await, the sources tried
\* with their outcomes, the result, the rate calculator and the cache as the
\* call found them, and what the call gives when nothing else touches the
\* collector while it waits
NoCollect ==
    [method |-> "none", instant |-> 0, i |-> 0, inflight |-> None, locals |-> None,
     events |-> <<>>, result |-> None, rc_before |-> RateCalculator_new,
     cache_before |-> Collector_cache,
     solo |-> [rc |-> RateCalculator_new, cache |-> Collector_cache, result |-> None,
               agree |-> TRUE]]

\* history: the call's steps so far, taken on a collector that only this call
\* uses: its rate calculator, its cache, its result, and whether it stands
\* where the call stands
Solo(rc, cch, result, agree) == [rc |-> rc, cache |-> cch, result |-> result, agree |-> agree]

\* the outcome of a source as the history keeps it
Outcome(result) == IF result.tag = "Ok" THEN "Ok" ELSE IF result.tag = "Panic" THEN "Panic" ELSE result.err

---------------------------------------------------------------------------
(* collect_arc_stats step by step *)

\* the contents of the kernel statistics file: unreadable, a read counter, a
\* malformed field, counters whose sum exceeds u64::MAX
ArcFiles ==
    {None}
    \cup {Some(<<Line(FALSE, <<W("read_ops"), I(4), I(v)>>)>>) : v \in Values}
    \cup {Some(<<Line(FALSE, <<W("read_ops"), I(4), W("abc")>>)>>),
          Some(<<Line(FALSE, <<W("hits"), I(4), I(U64Max)>>),
                 Line(FALSE, <<W("misses"), I(4), I(1)>>)>>)}

\* the outputs of an arcstat invocation: hit rate, read counter, size and
\* target; the layout with a miss rate in second place; a short output
ArcstatOutputs ==
    {<<D(100), I(v), I(1), I(1)>> : v \in Values}
    \cup {<<D(100), D(0), I(1), I(1), I(1)>>, <<I(1)>>}

\* one entry of a call's history: the source tried (0 the file, i the i-th
\* command variant), the invocation, what it gave (None: nothing) and the outcome
Event(source, cmd, input, result) ==
    [source |-> source, cmd |-> cmd, input |-> input, outcome |-> Outcome(result)]

\* self.cache.get(key) that answered with the cached text: an entry of the
\* call's history like a command's, the text its input
cache_get(key) == execute("cache.get", <<key>>)
CacheHit(source, key, text) == Event(source, cache_get(key), Some(text), Ok(text))

\* FilesystemReader::read_to_string on the kernel statistics file
read_to_string == execute("read_to_string", <<"/proc/spl/kstat/zfs/arcstats">>)

\* collect_arc_stats that falls back whatever the file gave
needs_fallback_always(result) == result.tag # "Panic"
\* collect_arc_stats that never falls back
needs_fallback_never(result) == FALSE
\* the match in collect_arc_stats: Err(_) goes on to the arcstat fallback
needs_fallback(result) == result.tag = "Err"

\* collect_arc_stats up to its first await: the instant is captured, the file
\* is read and parsed; on success the method returns, on failure the first
\* arcstat variant is invoked
ArcStart(file, checks) ==
    /\ pc = "idle"
    /\ now <= MaxNow
    /\ LET p == collect_arc_stats_from_proc(rate_calculator, file, now, checks)
           c == [NoCollect EXCEPT !.method = "collect_arc_stats", !.instant = now,
                                  !.rc_before = rate_calculator,
                                  !.cache_before = cache,
                                  !.events = <<Event(0, read_to_string, file, p.result)>>,
                                  !.solo = Solo(p.rc, cache,
                                                IF needs_fallback(p.result) THEN None
                                                ELSE Some(p.result), TRUE)]
       IN  /\ rate_calculator' = p.rc
           /\ IF needs_fallback(p.result)
              THEN /\ pc' = "arcstat"
                   /\ call' = [c EXCEPT !.i = 1,
                                  !.inflight = Some(execute_with_timeout(commands[1],
                                                   ArcstatTimeoutSecs * TicksPerSec, now))]
              ELSE /\ pc' = IF p.result.tag = "Panic" THEN "panicked" ELSE "idle"
                   /\ call' = [c EXCEPT !.result = Some(p.result)]
    /\ UNCHANGED <<rc_ghost, cache_vars, kstat, monitor, joined>>

\* the outcome of the variant in flight reaches the loop
ArcstatResume(outcome) ==
    LET o == arcstat_outcome(rate_calculator, call.i, outcome, call.instant)
        os == arcstat_outcome(call.solo.rc, call.i, outcome, call.instant)
        c == [call EXCEPT !.events =
                  Append(@, Event(call.i, unwrap(call.inflight),
                                  IF outcome.tag = "Ok" THEN Some(outcome.val) ELSE None,
                                  IF outcome.tag = "Ok"
                                  THEN parse_arcstat_output(outcome.val) ELSE outcome)),
                          !.solo = Solo(os.rc, @.cache,
                                        IF os.done THEN Some(os.result) ELSE None,
                                        @.agree /\ os.done = o.done /\ os.i = o.i)]
    IN  /\ rate_calculator' = o.rc
        /\ IF o.done
           THEN /\ pc' = "idle"
                /\ call' = [c EXCEPT !.inflight = None, !.result = Some(o.result)]
           ELSE /\ pc' = "arcstat"
                /\ call' = [c EXCEPT !.i = o.i,
                               !.inflight = Some(execute_with_timeout(commands[o.i],
                                                ArcstatTimeoutSecs * TicksPerSec, now'))]

\* the arcstat invocation in flight ends: with its output, or failing to run
ArcstatComplete(outcome) ==
    /\ pc = "arcstat"
    /\ now' = now
    /\ ArcstatResume(outcome)
    /\ UNCHANGED <<rc_ghost, cache, cache_ghost, kstat, monitor, joined>>

\* the timer of the invocation in flight fires: the clock has reached the
\* deadline and execute_with_timeout returns its timeout error
ArcstatTimeout ==
    /\ pc = "arcstat"
    /\ is_some(unwrap(call.inflight).deadline)
    /\ now' = IF now < unwrap(unwrap(call.inflight).deadline)
              THEN unwrap(unwrap(call.inflight).deadline) ELSE now
    /\ ArcstatResume(Err("TimeoutError"))
    /\ UNCHANGED <<rc_ghost, cache, cache_ghost, kstat, monitor, joined>>

ArcNext ==
    \/ \E file \in ArcFiles, checks \in BOOLEAN : ArcStart(file, checks)
    \/ \E output \in ArcstatOutputs : ArcstatComplete(Ok(output))
    \/ ArcstatComplete(Err("CommandError"))
    \/ ArcstatTimeout
    \/ Tick


---------------------------------------------------------------------------
(* collect_l2arc_stats and collect_slog_stats step by step *)

\* the contents of the kernel statistics file as collect_l2arc_stats meets
\* it: unreadable; without an l2_size line; with an indented one; with a
\* malformed field of another name; with counters whose sum exceeds u64::MAX;
\* with counters that parse
L2Files ==
    {None,
     Some(<<Line(FALSE, <<W("hits"), I(4), I(1)>>)>>),
     Some(<<Line(TRUE, <<W("l2_size"), I(4), I(1)>>)>>),
     Some(<<Line(FALSE, <<W("l2_size"), I(4), I(1)>>),
            Line(FALSE, <<W("other"), I(4), W("abc")>>)>>),
     Some(<<Line(FALSE, <<W("l2_size"), I(4), I(1)>>),
            Line(FALSE, <<W("l2_hits"), I(4), I(U64Max)>>),
            Line(FALSE, <<W("l2_misses"), I(4), I(1)>>)>>)}
    \cup {Some(<<Line(FALSE, <<W("l2_size"), I(4), I(1)>>),
                 Line(FALSE, <<W("l2_read_bytes"), I(4), I(v)>>)>>) : v \in {0, U64Max}}

\* the outputs of `zpool status`: a mirrored log device, no logs section, a
\* single log device
StatusOutputs ==
    {<<Line(FALSE, <<W("logs")>>),
       Line(TRUE, <<W("mirror-1"), W("ONLINE"), I(0), I(0), I(0)>>)>>,
     <<Line(FALSE, <<W("pool:"), W("tank")>>)>>,
     <<Line(FALSE, <<W("logs")>>),
       Line(TRUE, <<W("sdc"), W("ONLINE"), I(0), I(0), I(0)>>)>>}

\* the outputs of `zpool iostat -v`: the device's row with a write counter, a
\* row with a malformed write counter, a table without the device
IostatOutputs ==
    {<<Line(TRUE, <<W("mirror-1"), W("-"), W("-"), I(0), I(v), I(0), B(1, "B")>>)>> :
        v \in Values}
    \cup {<<Line(TRUE, <<W("mirror-1"), W("-"), W("-"), I(0), W("abc"), I(0), B(1, "B")>>)>>,
          <<Line(FALSE, <<W("tank"), W("-"), W("-"), I(0), I(1), I(0), B(1, "B")>>)>>}

\* collect_l2arc_stats: it has no await, so one step
CollectL2arc(file, checks) ==
    /\ pc = "idle"
    /\ now <= MaxNow
    /\ LET p == collect_l2arc_stats(rate_calculator, file, now, checks)
       IN  /\ rate_calculator' = p.rc
           /\ pc' = IF p.result.tag = "Panic" THEN "panicked" ELSE "idle"
           /\ call' = [NoCollect EXCEPT !.method = "collect_l2arc_stats", !.instant = now,
                                        !.rc_before = rate_calculator,
                                        !.cache_before = cache,
                                        !.events = <<Event(0, read_to_string, file, p.result)>>,
                                        !.result = Some(p.result),
                                        !.solo = Solo(p.rc, cache, Some(p.result), TRUE)]
    /\ UNCHANGED <<rc_ghost, cache_vars, kstat, monitor, joined>>

\* collect_slog_stats that reports a pool without a log device as unavailable
slog_from_status_absent_is_error(c, rc, cch, status_output, instant) ==
    LET slog_device == parse_slog_device_from_status(status_output).val
        cached == get(cch, "zpool_iostat", instant)
    IN  IF is_none(slog_device)
        THEN [pc |-> "idle", rc |-> rc,
              call |-> [c EXCEPT !.inflight = None,
                                 !.result = Some(Err("SubsystemUnavailable"))]]
        ELSE IF is_some(cached)
        THEN LET r == slog_from_iostat(rc, unwrap(cached), unwrap(slog_device), c.instant)
             IN  [pc |-> "idle", rc |-> r.rc,
                  call |-> [c EXCEPT !.inflight = None, !.result = Some(r.result),
                                     !.events = Append(@, CacheHit(2, "zpool_iostat",
                                                                   unwrap(cached)))]]
        ELSE [pc |-> "slog_iostat", rc |-> rc,
              call |-> [c EXCEPT !.inflight = Some(execute("zpool", <<"iostat", "-v">>)),
                                 !.locals = slog_device]]

\* collect_slog_stats that runs `zpool iostat -v` again when the cached text
\* fails to parse
slog_from_status_retry_on_failure(c, rc, cch, status_output, instant) ==
    LET slog_device == parse_slog_device_from_status(status_output).val
        cached == get(cch, "zpool_iostat", instant)
    IN  IF is_none(slog_device)
        THEN [pc |-> "idle", rc |-> rc,
              call |-> [c EXCEPT !.inflight = None, !.result = Some(Ok(None))]]
        ELSE IF /\ is_some(cached)
                /\ parse_slog_stats_from_iostat(unwrap(cached), unwrap(slog_device)).tag = "Ok"
        THEN LET r == slog_from_iostat(rc, unwrap(cached), unwrap(slog_device), c.instant)
             IN  [pc |-> "idle", rc |-> r.rc,
                  call |-> [c EXCEPT !.inflight = None, !.result = Some(r.result),
                                     !.events = Append(@, CacheHit(2, "zpool_iostat",
                                                                   unwrap(cached)))]]
        ELSE [pc |-> "slog_iostat", rc |-> rc,
              call |-> [c EXCEPT !.inflight = Some(execute("zpool", <<"iostat", "-v">>)),
                                 !.locals = slog_device]]

\* collect_slog_stats from the status text on, up to its return or to the
\* await of `zpool iostat -v`: the collector's pc, call and rate calculator
slog_from_status(c, rc, cch, status_output, instant) ==
    LET slog_device == parse_slog_device_from_status(status_output).val
        cached == get(cch, "zpool_iostat", instant)
    IN  IF is_none(slog_device)
        THEN [pc |-> "idle", rc |-> rc,
              call |-> [c EXCEPT !.inflight = None, !.result = Some(Ok(None))]]
        ELSE IF is_some(cached)
        THEN LET r == slog_from_iostat(rc, unwrap(cached), unwrap(slog_device), c.instant)
             IN  [pc |-> "idle", rc |-> r.rc,
                  call |-> [c EXCEPT !.inflight = None, !.result = Some(r.result),
                                     !.events = Append(@, CacheHit(2, "zpool_iostat",
                                                                   unwrap(cached)))]]
        ELSE [pc |-> "slog_iostat", rc |-> rc,
              call |-> [c EXCEPT !.inflight = Some(execute("zpool", <<"iostat", "-v">>)),
                                 !.locals = slog_device]]

\* collect_slog_stats up to its first await or, with the cache answering, to
\* its return
SlogStart ==
    /\ pc = "idle"
    /\ LET c == [NoCollect EXCEPT !.method = "collect_slog_stats", !.instant = now,
                                  !.rc_before = rate_calculator,
                                  !.cache_before = cache]
           cached == get(cache, "zpool_status", now)
           st == IF is_some(cached)
                 THEN slog_from_status([c EXCEPT !.events =
                                           <<CacheHit(1, "zpool_status", unwrap(cached))>>],
                                       rate_calculator, cache, unwrap(cached), now)
                 ELSE [pc |-> "slog_status", rc |-> rate_calculator,
                       call |-> [c EXCEPT !.inflight = Some(execute("zpool", <<"status">>))]]
       IN  /\ pc' = st.pc
           /\ call' = [st.call EXCEPT !.solo = Solo(st.rc, cache, st.call.result, TRUE)]
           /\ rate_calculator' = st.rc
    /\ UNCHANGED <<rc_ghost, cache_vars, kstat, monitor, joined>>

\* the command in flight failed to run: the method returns the command error
SlogCommandFailed(source) ==
    /\ pc' = "idle"
    /\ call' = [call EXCEPT !.events = Append(@, Event(source, unwrap(call.inflight),
                                                      None, Err("CommandError"))),
                            !.inflight = None,
                            !.result = Some(Err("CommandError")),
                            !.solo.result = Some(Err("CommandError"))]
    /\ UNCHANGED <<rate_calculator, cache, cache_ins>>

\* the history after the command whose output the cache keeps under `key`
\* has executed successfully and given `value`
executed(key, value) ==
    [cache_ins EXCEPT ![key] = Some([value |-> value, at |-> now,
                                     ttl |-> cache.default_ttl])]

\* `zpool status` ends: with its output, or failing to run
SlogStatusComplete(outcome) ==
    /\ pc = "slog_status"
    /\ IF outcome.tag = "Err" THEN SlogCommandFailed(1)
       ELSE LET c == [call EXCEPT !.events = Append(@, Event(1, unwrap(call.inflight),
                                                           Some(outcome.val), outcome))]
                cch == insert(cache, "zpool_status", outcome.val, now)
                st == slog_from_status(c, rate_calculator, cch, outcome.val, now)
                cchs == insert(call.solo.cache, "zpool_status", outcome.val, now)
                sts == slog_from_status(c, call.solo.rc, cchs, outcome.val, now)
            IN  /\ cache' = cch
                /\ cache_ins' = executed("zpool_status", outcome.val)
                /\ pc' = st.pc
                /\ call' = [st.call EXCEPT
                               !.solo = Solo(sts.rc, cchs, sts.call.result,
                                             @.agree /\ sts.pc = st.pc
                                                     /\ sts.call.locals = st.call.locals)]
                /\ rate_calculator' = st.rc
    /\ UNCHANGED <<rc_ghost, now, cache_ret, cache_call, kstat, monitor, joined>>

\* collect_slog_stats that keeps one I/O statistics text per log device
slog_iostat_executed_key_per_device(rc, cch, output, device_name, instant, at) ==
    LET r == slog_from_iostat(rc, output, device_name, instant)
    IN  [cache |-> insert(cch, device_name, output, at), rc |-> r.rc, result |-> r.result]

\* collect_slog_stats that stores the I/O statistics text only once it parsed
slog_iostat_executed_cache_after_parse(rc, cch, output, device_name, instant, at) ==
    LET r == slog_from_iostat(rc, output, device_name, instant)
    IN  [cache |-> IF r.result.tag = "Ok" THEN insert(cch, "zpool_iostat", output, at)
                   ELSE cch,
         rc |-> r.rc, result |-> r.result]

\* collect_slog_stats from the output of `zpool iostat -v` on: the text goes
\* into the cache at the instant `at`, then it is parsed and the rates taken
slog_iostat_executed(rc, cch, output, device_name, instant, at) ==
    LET r == slog_from_iostat(rc, output, device_name, instant)
    IN  [cache |-> insert(cch, "zpool_iostat", output, at), rc |-> r.rc, result |-> r.result]

\* `zpool iostat -v` ends: with its output, or failing to run
SlogIostatComplete(outcome) ==
    /\ pc = "slog_iostat"
    /\ IF outcome.tag = "Err" THEN SlogCommandFailed(2)
       ELSE LET r == slog_iostat_executed(rate_calculator, cache, outcome.val,
                                          unwrap(call.locals), call.instant, now)
                rs == slog_iostat_executed(call.solo.rc, call.solo.cache, outcome.val,
                                           unwrap(call.locals), call.instant, now)
            IN  /\ cache' = r.cache
                /\ cache_ins' = executed("zpool_iostat", outcome.val)
                /\ pc' = "idle"
                /\ rate_calculator' = r.rc
                /\ call' = [call EXCEPT !.events = Append(@, Event(2, unwrap(call.inflight),
                                                                  Some(outcome.val), outcome)),
                                        !.inflight = None,
                                        !.result = Some(r.result),
                                        !.solo = Solo(rs.rc, rs.cache, Some(rs.result),
                                                      @.agree)]
    /\ UNCHANGED <<rc_ghost, now, cache_ret, cache_call, kstat, monitor, joined>>

L2SlogNext ==
    \/ \E file \in L2Files, checks \in BOOLEAN : CollectL2arc(file, checks)
    \/ SlogStart
    \/ \E output \in StatusOutputs : SlogStatusComplete(Ok(output))
    \/ SlogStatusComplete(Err("CommandError"))
    \/ \E output \in IostatOutputs : SlogIostatComplete(Ok(output))
    \/ SlogIostatComplete(Err("CommandError"))
    \/ Tick

---------------------------------------------------------------------------
(* collect_slog_stats over the lifetime of cache entries *)

\* the time-to-live of the collector's cache, in ticks
CollectorCacheTtl == CollectorCacheTtlSecs * TicksPerSec

\* the clock of a collector observed for two lifetimes of a cache entry
MaxClock == MaxNow + 2 * CollectorCacheTtl

\* time passes up to the last instant before a cache entry expires (d = 1)
\* or up to the instant it expires (d = 0)
Elapse(key, d) ==
    /\ key \in DOMAIN cache.data
    /\ now < cache.data[key].expires_at - d
    /\ cache.data[key].expires_at - d <= MaxClock
    /\ now' = cache.data[key].expires_at - d
    /\ UNCHANGED <<cache, cache_ghost, rc_vars, col_vars>>

\* ZfsStatsCollector::clear_cache
clear_cache(self_cache) == clear(self_cache)

\* collector.clear_cache() between two calls
ClearCache ==
    /\ pc = "idle"
    /\ cache' = clear_cache(cache)
    /\ cache_ins' = [k \in CacheKeys |-> None]
    /\ call' = [NoCollect EXCEPT !.method = "clear_cache", !.instant = now,
                                 !.rc_before = rate_calculator,
                                 !.cache_before = cache]
    /\ UNCHANGED <<rc_vars, now, cache_ret, cache_call, kstat, pc, monitor, joined>>

\* the caller drops the future of the call under way at its await: the
\* command in flight is forgotten and the method never resumes
Abandon ==
    /\ pc \in {"arcstat", "slog_status", "slog_iostat"}
    /\ pc' = "idle"
    /\ call' = [call EXCEPT !.inflight = None]
    /\ UNCHANGED <<rc_vars, cache_vars, kstat, monitor, joined>>

SlogNext ==
    \/ SlogStart
    \/ \E output \in StatusOutputs : SlogStatusComplete(Ok(output))
    \/ SlogStatusComplete(Err("CommandError"))
    \/ \E output \in IostatOutputs : SlogIostatComplete(Ok(output))
    \/ SlogIostatComplete(Err("CommandError"))
    \/ Abandon
    \/ ClearCache
    \/ Tick
    \/ \E key \in CacheKeys, d \in {0, 1} : Elapse(key, d)

---------------------------------------------------------------------------
(* The three collection methods called one after another on one collector *)

\* the kernel statistics file: unreadable, with the counters of both families
CollectorFiles ==
    {None,
     Some(<<Line(FALSE, <<W("read_ops"), I(4), I(1)>>),
            Line(FALSE, <<W("l2_size"), I(4), I(1)>>),
            Line(FALSE, <<W("l2_read_bytes"), I(4), I(U64Max)>>)>>)}

\* the file as collect_l2arc_stats may find it: also without L2ARC counters
CollectorL2Files ==
    CollectorFiles \cup {Some(<<Line(FALSE, <<W("read_ops"), I(4), I(1)>>)>>)}

\* the output of an arcstat invocation
CollectorArcstatOutputs == {<<D(100), I(U64Max), I(1), I(1)>>}

\* the outputs of `zpool status`: a mirrored log device, another one, no
\* logs section
CollectorStatusOutputs ==
    {<<Line(FALSE, <<W("logs")>>),
       Line(TRUE, <<W("mirror-1"), W("ONLINE"), I(0), I(0), I(0)>>)>>,
     <<Line(FALSE, <<W("logs")>>),
       Line(TRUE, <<W("mirror-2"), W("ONLINE"), I(0), I(0), I(0)>>)>>,
     <<Line(FALSE, <<W("pool:"), W("tank")>>)>>}

\* the outputs of `zpool iostat -v`: the rows of both devices, a row with a
\* malformed write counter
CollectorIostatOutputs ==
    {<<Line(TRUE, <<W("mirror-1"), W("-"), W("-"), I(0), I(U64Max), I(0), B(1, "B")>>),
       Line(TRUE, <<W("mirror-2"), W("-"), W("-"), I(0), I(1), I(0), B(1, "B")>>)>>,
     <<Line(TRUE, <<W("mirror-1"), W("-"), W("-"), I(0), W("abc"), I(0), B(1, "B")>>)>>}

\* the clock of this collector runs from 0 to MaxCollectorNow ticks
CollectorTick == now < MaxCollectorNow /\ Tick

CollectorNext ==
    \/ \E file \in CollectorFiles : ArcStart(file, TRUE)
    \/ \E output \in CollectorArcstatOutputs : ArcstatComplete(Ok(output))
    \/ ArcstatComplete(Err("CommandError"))
    \/ \E file \in CollectorL2Files : CollectL2arc(file, TRUE)
    \/ SlogStart
    \/ \E output \in CollectorStatusOutputs : SlogStatusComplete(Ok(output))
    \/ SlogStatusComplete(Err("CommandError"))
    \/ \E output \in CollectorIostatOutputs : SlogIostatComplete(Ok(output))
    \/ SlogIostatComplete(Err("CommandError"))
    \/ Abandon
    \/ ClearCache
    \/ CollectorTick

---------------------------------------------------------------------------
(* collect_slog_stats on a pool whose log device changes *)

\* the outputs of `zpool iostat -v`: the rows of both devices, the bytes
\* written to the second device at two values
DeviceIostatOutputs ==
    {<<Line(TRUE, <<W("mirror-1"), W("-"), W("-"), I(0), I(1), I(0), B(1, "B")>>),
       Line(TRUE, <<W("mirror-2"), W("-"), W("-"), I(0), I(1), I(0), B(1, unit)>>)>> :
        unit \in {"B", "K"}}

SlogDeviceNext ==
    \/ SlogStart
    \/ \E output \in CollectorStatusOutputs : SlogStatusComplete(Ok(output))
    \/ SlogStatusComplete(Err("CommandError"))
    \/ \E output \in DeviceIostatOutputs : SlogIostatComplete(Ok(output))
    \/ SlogIostatComplete(Err("CommandError"))
    \/ Abandon
    \/ ClearCache
    \/ Tick
    \/ \E key \in CacheKeys, d \in {0, 1} : Elapse(key, d)

---------------------------------------------------------------------------
(* The monitoring loop of monitor.rs *)

\* the metric families, the method that collects each, and what the loop
\* goes on to after each
Families == {"arc", "l2arc", "slog"}
Method ==
    [arc |-> "collect_arc_stats", l2arc |-> "collect_l2arc_stats",
     slog |-> "collect_slog_stats"]
NextStage == [arc |-> "l2arc", l2arc |-> "slog", slog |-> "display"]

\* the refresh intervals, in seconds (any u32 is accepted, 0 included)
MonitorIntervals == {0, 1}
\* the loop is followed for MaxCycles refreshes
MaxCycles == 2

\* no monitoring loop: where it stands, its interval, the refreshes begun,
\* the families the current cycle collected, those that gave statistics,
\* those it displayed, the families whose collection failed, and what the
\* function returned
\* no join: no future is kept
NoJoin == [f \in Families |-> None]

NoMonitor ==
    [stage |-> "off", interval |-> 0, cycle |-> 0, collected |-> {}, present |-> {},
     displayed |-> {}, failed |-> {}, exit |-> None]

\* run_live_mode (run_demo_mode alike) up to its loop: the collector is
\* constructed and the loop reaches its select!
MonitorRun(interval) ==
    /\ monitor.stage = "off"
    /\ monitor' = [NoMonitor EXCEPT !.stage = "select", !.interval = interval]
    /\ UNCHANGED <<rc_vars, cache_vars, kstat, pc, call, joined>>

\* select!: Ctrl+C arrives first; the cursor is shown and the function
\* returns Ok(()), or the error of the write to the terminal
MonitorCtrlC(io_ok) ==
    /\ monitor.stage = "select"
    /\ monitor' = [monitor EXCEPT !.stage = "returned",
                                  !.exit = Some(IF io_ok THEN Ok(None) ELSE Err("IoError"))]
    /\ UNCHANGED <<rc_vars, cache_vars, kstat, pc, call, joined>>

\* select!: the sleep ends first; the screen is cleared and the cursor
\* hidden, and a new cycle begins
MonitorRefresh(io_ok) ==
    /\ monitor.stage = "select"
    /\ monitor.cycle < MaxCycles
    /\ now + monitor.interval * TicksPerSec <= MaxNow
    /\ now' = now + monitor.interval * TicksPerSec
    /\ monitor' = IF io_ok
                  THEN [monitor EXCEPT !.stage = "arc", !.cycle = @ + 1, !.collected = {},
                                       !.present = {}, !.displayed = {}]
                  ELSE [monitor EXCEPT !.stage = "returned", !.cycle = @ + 1,
                                       !.exit = Some(Err("IoError"))]
    /\ UNCHANGED <<rc_vars, cache, cache_ghost, kstat, pc, call, joined>>

\* the loop stands before the call of the family's method
MonitorCalls(f) == monitor.stage = f /\ call.method # Method[f]

\* `collector.collect_..._stats().await?`: the call has returned; an Err
\* returns from the function, an Ok value becomes the cycle's statistics
MonitorCollected(f) ==
    /\ monitor.stage = f
    /\ pc = "idle"
    /\ call.method = Method[f]
    /\ is_some(call.result)
    /\ LET r == unwrap(call.result)
       IN  monitor' =
               IF r.tag = "Err"
               THEN [monitor EXCEPT !.stage = "returned", !.failed = @ \cup {f},
                                    !.exit = Some(Err(r.err))]
               ELSE [monitor EXCEPT !.stage = NextStage[f], !.collected = @ \cup {f},
                                    !.present = IF f = "arc" \/ is_some(r.val)
                                                THEN @ \cup {f} ELSE @]
    /\ UNCHANGED <<rc_vars, cache_vars, kstat, pc, call, joined>>

\* the sections are displayed: the header, ARC, L2ARC and SLOG when they
\* gave statistics, the footer; the output is flushed
MonitorDisplay(io_ok) ==
    /\ monitor.stage = "display"
    /\ monitor' = IF io_ok
                  THEN [monitor EXCEPT !.stage = "select", !.displayed = monitor.present]
                  ELSE [monitor EXCEPT !.stage = "returned", !.displayed = monitor.present,
                                       !.exit = Some(Err("IoError"))]
    /\ UNCHANGED <<rc_vars, cache_vars, kstat, pc, call, joined>>

MonitorNext ==
    \/ \E interval \in MonitorIntervals : MonitorRun(interval)
    \/ \E io_ok \in BOOLEAN : MonitorCtrlC(io_ok)
    \/ \E io_ok \in BOOLEAN : MonitorRefresh(io_ok)
    \/ \E file \in CollectorFiles : MonitorCalls("arc") /\ ArcStart(file, TRUE)
    \/ \E output \in CollectorArcstatOutputs : ArcstatComplete(Ok(output))
    \/ ArcstatComplete(Err("CommandError"))
    \/ \E file \in CollectorFiles : MonitorCalls("l2arc") /\ CollectL2arc(file, TRUE)
    \/ MonitorCalls("slog") /\ SlogStart
    \/ \E output \in CollectorStatusOutputs : SlogStatusComplete(Ok(output))
    \/ SlogStatusComplete(Err("CommandError"))
    \/ \E output \in CollectorIostatOutputs : SlogIostatComplete(Ok(output))
    \/ SlogIostatComplete(Err("CommandError"))
    \/ \E f \in Families : MonitorCollected(f)
    \/ \E io_ok \in BOOLEAN : MonitorDisplay(io_ok)

---------------------------------------------------------------------------
(* The three collection methods joined on one collector *)

\* the family a collection method belongs to
FamilyOf(method) == CHOOSE f \in Families : Method[f] = method

\* join! has not yet polled the family's future, and polls no other now
JoinPolls(f) == call.method = "none" /\ pc = "idle" /\ is_none(joined[f])

\* join! turns to another future: the call under way stays at its await, or
\* has returned, and is set aside
JoinPark ==
    /\ call.method \in {Method[f] : f \in Families}
    /\ pc # "panicked"
    /\ joined' = [joined EXCEPT ![FamilyOf(call.method)] = Some([pc |-> pc, call |-> call])]
    /\ pc' = "idle"
    /\ call' = NoCollect
    /\ UNCHANGED <<rc_vars, cache_vars, kstat, monitor>>

\* join! polls again a future that stands at its await
JoinResume(f) ==
    /\ call.method = "none"
    /\ pc = "idle"
    /\ is_some(joined[f])
    /\ unwrap(joined[f]).pc # "idle"
    /\ pc' = unwrap(joined[f]).pc
    /\ call' = unwrap(joined[f]).call
    /\ joined' = [joined EXCEPT ![f] = None]
    /\ UNCHANGED <<rc_vars, cache_vars, kstat, monitor>>

\* the three futures have completed: join! returns their results
JoinReturn ==
    /\ call.method = "none"
    /\ \A f \in Families : is_some(joined[f]) /\ unwrap(joined[f]).pc = "idle"
    /\ joined' = NoJoin
    /\ UNCHANGED <<rc_vars, cache_vars, kstat, pc, call, monitor>>

\* what the joined calls meet: a kernel statistics file that collect_arc_stats
\* cannot read, so that it awaits arcstat, and that collect_l2arc_stats can
\* read or not; a `zpool status` output with a mirrored log device; the
\* `zpool iostat -v` table of the devices
JoinStatusOutputs ==
    {<<Line(FALSE, <<W("logs")>>),
       Line(TRUE, <<W("mirror-2"), W("ONLINE"), I(0), I(0), I(0)>>)>>}
JoinIostatOutputs ==
    {<<Line(TRUE, <<W("mirror-1"), W("-"), W("-"), I(0), I(U64Max), I(0), B(1, "B")>>),
       Line(TRUE, <<W("mirror-2"), W("-"), W("-"), I(0), I(1), I(0), B(1, "B")>>)>>}

JoinNext ==
    \/ JoinPolls("arc") /\ ArcStart(None, TRUE)
    \/ \E output \in CollectorArcstatOutputs : ArcstatComplete(Ok(output))
    \/ ArcstatComplete(Err("CommandError"))
    \/ \E file \in CollectorFiles : JoinPolls("l2arc") /\ CollectL2arc(file, TRUE)
    \/ JoinPolls("slog") /\ SlogStart
    \/ \E output \in JoinStatusOutputs : SlogStatusComplete(Ok(output))
    \/ SlogStatusComplete(Err("CommandError"))
    \/ \E output \in JoinIostatOutputs : SlogIostatComplete(Ok(output))
    \/ SlogIostatComplete(Err("CommandError"))
    \/ JoinPark
    \/ \E f \in Families : JoinResume(f)
    \/ JoinReturn
    \/ CollectorTick

---------------------------------------------------------------------------
(* Kernel statistics texts parsed one at a time *)

ArcNames == {"hits", "misses", "size", "c_max", "read_ops"}
L2Names == {"l2_hits", "l2_misses", "l2_size", "l2_read_bytes"}

\* the names and value fields the texts are made of
KstatInputNames == {"hits", "misses", "read_ops", "l2_hits", "l2_misses", "l2_size", "other"}
KstatValueToks == {I(v) : v \in Values} \cup {W("abc")}

KstatLines ==
    {Line(FALSE, <<W(n), I(4), v>>) : n \in KstatInputNames, v \in KstatValueToks}
    \cup {Line(FALSE, <<>>),                                  \* a blank line
          Line(FALSE, <<W("name"), W("type"), W("data")>>),   \* the header line
          Line(FALSE, <<W("named"), I(4), W("abc")>>),        \* a line that begins like the header
          Line(FALSE, <<W("hits"), I(4)>>),                   \* a line without a value field
          Line(TRUE, <<W("l2_size"), I(4), I(1)>>)}           \* an indented line

KstatTexts ==
    {<<>>} \cup {<<a>> : a \in KstatLines}
    \cup {<<a, b>> : a \in KstatLines, b \in KstatLines}
    \cup {<<a, b, c>> : a \in KstatLines, b \in KstatLines, c \in KstatLines}

KstatIdle ==
    [text |-> <<>>, op |-> "none", checks |-> FALSE, device_name |-> "", result |-> Err("")]

\* the kstat part of collect_arc_stats_from_proc applied to the text
KstatParseArc(checks) ==
    /\ kstat.op = "none"
    /\ kstat' = [kstat EXCEPT !.op = "arc", !.checks = checks,
                              !.result = arc_from_kstat(kstat.text, checks)]
    /\ UNCHANGED <<rc_vars, cache_vars, pc, call, monitor, joined>>

\* the kstat part of collect_l2arc_stats applied to the text
KstatParseL2(checks) ==
    /\ kstat.op = "none"
    /\ kstat' = [kstat EXCEPT !.op = "l2arc", !.checks = checks,
                              !.result = l2_from_kstat(kstat.text, checks)]
    /\ UNCHANGED <<rc_vars, cache_vars, pc, call, monitor, joined>>

KstatNext ==
    \/ \E checks \in BOOLEAN : KstatParseArc(checks)
    \/ \E checks \in BOOLEAN : KstatParseL2(checks)

---------------------------------------------------------------------------
(* Status and I/O-table texts parsed one at a time *)

\* the lines the texts are made of
SlogLines ==
    {Line(FALSE, <<>>),                                                   \* a blank line
     Line(FALSE, <<W("logs")>>),                                          \* the section header
     Line(FALSE, <<W("cache")>>),                                         \* another section header
     Line(FALSE, <<W("-----"), W("-----")>>),                             \* a separator
     Line(TRUE, <<W("mirror-1"), W("ONLINE"), I(0), I(0), I(0)>>),        \* a mirrored device
     Line(TRUE, <<W("sdc"), W("ONLINE"), I(0), I(0), I(0)>>),             \* a single device
     Line(FALSE, <<W("logstore"), W("ONLINE"), I(0), I(0), I(0)>>),       \* a pool named logstore
     Line(TRUE, <<W("mirror-1")>>),                                       \* a name without fields
     Line(TRUE, <<W("mirror-1"), W("-"), W("-"), I(0), I(23), I(0), B(12, "M")>>),
     Line(TRUE, <<W("sdc"), W("-"), W("-"), I(0), I(5), I(0), B(1, "K")>>),
     Line(TRUE, <<W("old-mirror-1"), W("-"), W("-"), I(0), I(7), I(0), I(9)>>),
     Line(TRUE, <<W("mirror-1"), W("-"), W("-"), I(0), W("invalid"), I(0), B(12, "M")>>),
     Line(TRUE, <<W("mirror-1"), W("-"), W("-"), I(0), I(23), I(0), W("invalid")>>)}

\* the texts: up to MaxLines lines
MaxLines == 3
RECURSIVE SlogTextsOf(_)
SlogTextsOf(n) ==
    IF n = 0 THEN {<<>>}
    ELSE SlogTextsOf(n - 1)
         \cup {Append(t, a) : t \in {u \in SlogTextsOf(n - 1) : Len(u) = n - 1}, a \in SlogLines}
SlogTexts == SlogTextsOf(MaxLines)

\* the device names looked for
SlogTargets == {"mirror-1", "sdc", "nonexistent"}

\* parse_slog_device_from_status applied to the text
ParseSlogDevice ==
    /\ kstat.op = "none"
    /\ kstat' = [kstat EXCEPT !.op = "status",
                              !.result = parse_slog_device_from_status(kstat.text)]
    /\ UNCHANGED <<rc_vars, cache_vars, pc, call, monitor, joined>>

\* parse_slog_stats_from_iostat applied to the text and a device name
ParseSlogStats(device_name) ==
    /\ kstat.op = "none"
    /\ kstat' = [kstat EXCEPT !.op = "iostat", !.device_name = device_name,
                              !.result = parse_slog_stats_from_iostat(kstat.text, device_name)]
    /\ UNCHANGED <<rc_vars, cache_vars, pc, call, monitor, joined>>

SlogTextNext ==
    \/ ParseSlogDevice
    \/ \E device_name \in SlogTargets : ParseSlogStats(device_name)

---------------------------------------------------------------------------
(* Claims about kernel statistics parsing *)

\* the lines of the text that carry a value field (three tokens or more)
KstatValueLines(text) == {i \in 1 .. Len(text) : Len(text[i].parts) >= 3}

\* some line with a name of `names` has a value field that is no u64
KstatBadField(text, names) ==
    \E i \in KstatValueLines(text) :
        /\ text[i].parts[1].name \in names
        /\ text[i].parts[3].kind # "int"

\* the value of the last line named `name`, 0 without such a line
KstatLast(text, name) ==
    LET at == {i \in KstatValueLines(text) :
                  text[i].parts[1].name = name /\ text[i].parts[3].kind = "int"}
    IN  IF at = {} THEN 0
        ELSE text[CHOOSE i \in at : \A j \in at : j <= i].parts[3].val

\* every name either parser recognizes
KstatRecognized == ArcNames \cup L2Names

\* the L2ARC parse went past the presence test
KstatL2Parsed == kstat.op = "l2arc" /\ has_l2arc(kstat.text)

\* C16: parsing the kernel statistics text fails if and only if the value
\* field of a line with a recognized name is not a valid unsigned integer; a
\* line with an unrecognized name never causes a failure, whatever its value
\* field contains.
C16_ParseFailsOnlyOnRecognized ==
    (kstat.op = "arc" \/ KstatL2Parsed) =>
        (kstat.result.tag = "Err" <=> KstatBadField(kstat.text, KstatRecognized))

\* C17: for all u64 counters hits = H and misses = M in a text that parses,
\* the hit rate is 100 * H / (H + M) when H + M > 0 and 0 when H + M = 0, it
\* lies in 0 .. 100, and H + M is computed without overflow or wrap-around.
C17_HitRate ==
    /\ (kstat.op = "arc" /\ kstat.result.tag # "Err") =>
          LET H == KstatLast(kstat.text, "hits")
              M == KstatLast(kstat.text, "misses")
          IN  /\ kstat.result.tag = "Ok"
              /\ kstat.result.val.hit_rate
                    = IF H + M > 0 THEN Frac(100 * H, H + M) ELSE Zero
              /\ kstat.result.val.hit_rate.num
                    <= 100 * kstat.result.val.hit_rate.den
    /\ (KstatL2Parsed /\ kstat.result.tag # "Err") =>
          LET H == KstatLast(kstat.text, "l2_hits")
              M == KstatLast(kstat.text, "l2_misses")
          IN  /\ kstat.result.tag = "Ok"
              /\ unwrap(kstat.result.val).hit_rate
                    = IF H + M > 0 THEN Frac(100 * H, H + M) ELSE Zero
              /\ unwrap(kstat.result.val).hit_rate.num
                    <= 100 * unwrap(kstat.result.val).hit_rate.den

---------------------------------------------------------------------------
(* Claims about collect_arc_stats *)

ArcCall == call.method = "collect_arc_stats"
\* the call has returned a value (not panicked, not under way)
ArcReturned == ArcCall /\ pc = "idle" /\ is_some(call.result)
ArcCommandEvents == 2 .. Len(call.events)

\* C11: collect_arc_stats tries the kernel statistics file first; a command
\* is invoked only if the file attempt failed (unreadable, or a field failed
\* to parse); when the file attempt succeeds the call invokes no command.
C11_FileFirst ==
    ArcCall =>
        /\ Len(call.events) >= 1
        /\ call.events[1].source = 0
        /\ call.events[1].cmd.cmd = "read_to_string"
        /\ (Len(call.events) >= 2 \/ is_some(call.inflight)) =>
               call.events[1].outcome \in {"FilesystemError", "ParseError"}
        /\ call.events[1].outcome = "Ok" =>
               /\ Len(call.events) = 1
               /\ is_none(call.inflight)
               /\ pc = "idle"

C11_Witness ==
    /\ ArcCall
    /\ Len(call.events) >= 2
    /\ call.events[1].outcome = "ParseError"

\* C12: the fallback variants are tried in one fixed order, each at most once
\* per call; a variant is invoked only if every variant before it failed to
\* execute or gave output that failed to parse; after the first variant that
\* executes and parses no further variant is invoked, and its record is the
\* one returned.
C12_FirstSuccessWins ==
    ArcCall =>
        /\ Len(call.events) <= 1 + Len(commands)
        /\ \A j \in 1 .. Len(call.events) : call.events[j].source = j - 1
        /\ \A j \in ArcCommandEvents :
              /\ call.events[j].cmd.cmd = commands[j - 1].cmd
              /\ call.events[j].cmd.args = commands[j - 1].args
              /\ \A k \in 2 .. j - 1 :
                    call.events[k].outcome \in
                        {"CommandError", "TimeoutError", "ParseError", "InvalidFormat"}
              /\ call.events[j].outcome = "Ok" =>
                    /\ j = Len(call.events)
                    /\ is_none(call.inflight)
                    /\ ArcReturned
                    /\ unwrap(call.result).tag = "Ok"
                    /\ unwrap(call.result).val.hit_rate
                          = Frac(unwrap(call.events[j].input)[1].val, 1)
                    /\ unwrap(call.result).val.size = unwrap(call.events[j].input)[3].val
                    /\ unwrap(call.result).val.target = unwrap(call.events[j].input)[4].val
        /\ is_some(call.inflight) =>
              /\ \A k \in ArcCommandEvents : call.events[k].outcome # "Ok"
              /\ unwrap(call.inflight).cmd = commands[Len(call.events)].cmd
              /\ unwrap(call.inflight).args = commands[Len(call.events)].args

C12_Witness ==
    /\ ArcReturned
    /\ Len(call.events) = 3
    /\ call.events[2].outcome = "ParseError"
    /\ call.events[3].outcome = "Ok"

\* C13: collect_arc_stats returns an error only when the file and every
\* fallback variant have failed, and that error is subsystem-unavailable; the
\* filesystem, parse, format, command and timeout errors of the single
\* sources never reach the caller.
C13_Exhaustion ==
    (ArcReturned /\ unwrap(call.result).tag = "Err") =>
        /\ unwrap(call.result).err = "SubsystemUnavailable"
        /\ Len(call.events) = 1 + Len(commands)
        /\ \A j \in 1 .. Len(call.events) : call.events[j].outcome # "Ok"

C13_Witness ==
    /\ ArcReturned
    /\ unwrap(call.result).tag = "Err"
    /\ call.events[1].outcome = "FilesystemError"
    /\ call.events[2].outcome = "InvalidFormat"
    /\ call.events[3].outcome = "CommandError"
    /\ call.events[4].outcome = "TimeoutError"

\* a step in which the variant in flight ended with the outcome `kind`
ArcstatEnded(kind) ==
    /\ pc = "arcstat"
    /\ Len(call'.events) = Len(call.events) + 1
    /\ call'.events[Len(call'.events)].outcome = kind

\* the collector goes on to the next variant, or reports
\* subsystem-unavailable after the last one; the rate calculator and the
\* cache stay as they are
ArcstatFailureHandled ==
    /\ rate_calculator' = rate_calculator
    /\ cache' = cache
    /\ IF call.i < Len(commands)
       THEN /\ pc' = "arcstat"
            /\ call'.i = call.i + 1
            /\ is_none(call'.result)
            /\ unwrap(call'.inflight).cmd = commands[call.i + 1].cmd
            /\ unwrap(call'.inflight).args = commands[call.i + 1].args
       ELSE /\ pc' = "idle"
            /\ is_none(call'.inflight)
            /\ unwrap(call'.result).tag = "Err"
            /\ unwrap(call'.result).err = "SubsystemUnavailable"

ArcstatTimeoutStep ==
    (ArcstatEnded("TimeoutError") \/ ArcstatEnded("CommandError")) => ArcstatFailureHandled

\* C14: a fallback command that exceeds its timeout is handled exactly like
\* one that failed to execute: the collector advances to the next variant, or
\* reports subsystem-unavailable if it was the last, and the rate calculator
\* and the cache are not touched.
C14_TimeoutLikeFailure == [][ArcstatTimeoutStep]_vars

\* the last variant timed out after the second one had: the call has returned
C14_Witness ==
    /\ ArcReturned
    /\ Len(call.events) = 4
    /\ call.events[3].outcome = "TimeoutError"
    /\ call.events[4].outcome = "TimeoutError"
    /\ now >= 2 * ArcstatTimeoutSecs * TicksPerSec

\* the raw read counter of the source that succeeded
ArcRawReadOps ==
    LET e == call.events[Len(call.events)]
    IN  IF e.source = 0 THEN KstatLast(unwrap(e.input), "read_ops")
        ELSE unwrap(e.input)[2].val

ArcSucceeded == ArcReturned /\ unwrap(call.result).tag = "Ok"
ArcPrevValue == map_get(call.rc_before.previous_values, "arc_read_ops")
ArcPrevTime == map_get(call.rc_before.previous_timestamps, "arc_read_ops")
\* the counter's increase per second since the previous successful collection
ArcQuotient ==
    ((ArcRawReadOps - unwrap(ArcPrevValue)) * TicksPerSec)
        \div (call.instant - unwrap(ArcPrevTime))

\* the first successful collection reports 0, and so does a decreased counter
ArcRateZeroCases ==
    ArcSucceeded =>
        /\ is_none(ArcPrevValue) => unwrap(call.result).val.read_ops = 0
        /\ (is_some(ArcPrevValue) /\ ArcRawReadOps < unwrap(ArcPrevValue)) =>
               unwrap(call.result).val.read_ops = 0

ArcRateCase ==
    /\ ArcSucceeded
    /\ is_some(ArcPrevValue)
    /\ call.instant > unwrap(ArcPrevTime)
    /\ ArcRawReadOps >= unwrap(ArcPrevValue)

---------------------------------------------------------------------------
(* Claims about collect_l2arc_stats and collect_slog_stats *)

\* C15: every external command a collection method invokes (the arcstat
\* variants, `zpool status`, `zpool iostat -v`) is bounded by a timeout, so
\* that each collection method returns even if a command never completes.
C15_BoundedCommands ==
    is_some(call.inflight) => is_some(unwrap(call.inflight).deadline)

L2Call == call.method = "collect_l2arc_stats"
\* collect_l2arc_stats has read the file and returned
L2Returned == L2Call /\ pc = "idle" /\ is_some(call.events[1].input)
L2Text == unwrap(call.events[1].input)

\* the text has a line whose name is l2_size
L2SizeField(text) ==
    \E i \in 1 .. Len(text) : Len(text[i].parts) >= 1 /\ text[i].parts[1] = W("l2_size")

\* every value field of the text is an unsigned integer and the sum of the
\* L2 hit and miss counters is within u64
L2Clean(text) ==
    /\ \A i \in KstatValueLines(text) : text[i].parts[3].kind = "int"
    /\ KstatLast(text, "l2_hits") + KstatLast(text, "l2_misses") <= U64Max

\* the rate the rate calculator gives for `value` under `key` in this call
L2Rate(key, value) ==
    as_u64(unwrap_or(calculate_rate(call.rc_before, key, value, call.instant), Zero))

\* C19: collect_l2arc_stats returns 'not present' exactly when the kernel
\* statistics text has no l2_size field; it then invokes no command and does
\* not touch the rate calculator; when the field is present it returns a
\* record whose operations/sec and bytes/sec come from the rate calculator
\* under the keys l2_total_ops and l2_read_bytes.
C19_L2Absence ==
    (L2Returned /\ L2Clean(L2Text)) =>
        /\ unwrap(call.result).tag = "Ok"
        /\ is_none(unwrap(call.result).val) <=> ~L2SizeField(L2Text)
        /\ ~L2SizeField(L2Text) =>
              /\ Len(call.events) = 1
              /\ rate_calculator = call.rc_before
        /\ L2SizeField(L2Text) =>
              /\ unwrap(unwrap(call.result).val).total_ops
                    = L2Rate("l2_total_ops", KstatLast(L2Text, "l2_hits")
                                                 + KstatLast(L2Text, "l2_misses"))
              /\ unwrap(unwrap(call.result).val).read_bytes
                    = L2Rate("l2_read_bytes", KstatLast(L2Text, "l2_read_bytes"))

SlogCall == call.method = "collect_slog_stats"

\* the call has returned the error `kind`
ReturnedErr(kind) ==
    /\ pc = "idle"
    /\ is_none(call.inflight)
    /\ is_some(call.result)
    /\ unwrap(call.result).tag = "Err"
    /\ unwrap(call.result).err = kind

\* C20: when the kernel statistics file cannot be read, collect_l2arc_stats
\* returns the filesystem error directly, trying no other source; when
\* `zpool status` or `zpool iostat -v` fails to execute, collect_slog_stats
\* returns the command error directly; neither becomes 'not present' or
\* subsystem-unavailable.
C20_NoFallback ==
    /\ (L2Call /\ is_none(call.events[1].input)) =>
          /\ ReturnedErr("FilesystemError")
          /\ Len(call.events) = 1
    /\ SlogCall =>
          \A j \in 1 .. Len(call.events) :
              call.events[j].outcome = "CommandError" =>
                  /\ j = Len(call.events)
                  /\ ReturnedErr("CommandError")

\* `zpool status` gave a log device and `zpool iostat -v` failed to run
C20_Witness ==
    /\ SlogCall
    /\ Len(call.events) = 2
    /\ call.events[1].outcome = "Ok"
    /\ call.events[2].outcome = "CommandError"
    /\ ReturnedErr("CommandError")

---------------------------------------------------------------------------
(* Claims about collect_slog_stats and the cache *)

\* the two commands of collect_slog_stats: 1 is `zpool status`, 2 is
\* `zpool iostat -v`; the cache key and the await of each
SlogSources == {1, 2}
SlogKey(source) == IF source = 1 THEN "zpool_status" ELSE "zpool_iostat"
SlogPc(source) == IF source = 1 THEN "slog_status" ELSE "slog_iostat"

\* this step begins a call of collect_slog_stats
SlogStarts == pc = "idle" /\ now' = now /\ call'.method = "collect_slog_stats"

\* the entries this step adds to the history of a collect_slog_stats call
SlogNewEvents ==
    IF pc = "idle"
    THEN IF SlogStarts THEN call'.events ELSE <<>>
    ELSE IF call'.method = "collect_slog_stats"
    THEN SubSeq(call'.events, Len(call.events) + 1, Len(call'.events))
    ELSE <<>>

\* in this step the call took the text of `source` from the cache
SlogHit(source) ==
    \E j \in 1 .. Len(SlogNewEvents) :
        /\ SlogNewEvents[j].source = source
        /\ SlogNewEvents[j].cmd = cache_get(SlogKey(source))

\* in this step the call invoked the command of `source`
SlogLaunched(source) == pc' = SlogPc(source) /\ pc # SlogPc(source)

\* in this step the command of `source` ended with its output
SlogExecuted(source) ==
    /\ pc = SlogPc(source)
    /\ Len(SlogNewEvents) >= 1
    /\ SlogNewEvents[1].source = source
    /\ SlogNewEvents[1].outcome = "Ok"

\* the command of `source` executed successfully, no clear since, and its
\* entry's expiry (30 s after the output was stored) is still ahead
SlogFresh(source) ==
    /\ is_some(cache_ins[SlogKey(source)])
    /\ now < unwrap(cache_ins[SlogKey(source)]).at + CollectorCacheTtl

C21_Step ==
    /\ SlogStarts => SlogHit(1) \/ SlogLaunched(1)
    /\ \A source \in SlogSources :
          /\ (SlogHit(source) \/ SlogLaunched(source)) =>
                IF SlogFresh(source)
                THEN /\ ~SlogLaunched(source)
                     /\ \A j \in 1 .. Len(SlogNewEvents) :
                           SlogNewEvents[j].source = source =>
                               /\ SlogNewEvents[j].cmd = cache_get(SlogKey(source))
                               /\ SlogNewEvents[j].input
                                     = Some(unwrap(cache_ins[SlogKey(source)]).value)
                ELSE SlogLaunched(source) /\ ~SlogHit(source)
          /\ SlogExecuted(source) =>
                /\ SlogKey(source) \in DOMAIN cache'.data
                /\ cache'.data[SlogKey(source)]
                      = [value |-> unwrap(SlogNewEvents[1].input),
                         expires_at |-> now + CollectorCacheTtl]

SlogFailed(source) ==
    /\ pc = SlogPc(source)
    /\ Len(SlogNewEvents) >= 1
    /\ SlogNewEvents[1].source = source
    /\ SlogNewEvents[1].outcome = "CommandError"

\* this step stores an entry under `key`: a new one or another one
CacheStored(key) ==
    /\ key \in DOMAIN cache'.data
    /\ key \in DOMAIN cache.data => cache'.data[key] # cache.data[key]

C22_Step ==
    /\ DOMAIN cache'.data \subseteq {SlogKey(source) : source \in SlogSources}
    /\ \A source \in SlogSources :
          /\ CacheStored(SlogKey(source)) => SlogExecuted(source)
          /\ SlogExecuted(source) =>
                /\ SlogKey(source) \in DOMAIN cache'.data
                /\ cache'.data[SlogKey(source)].value = unwrap(SlogNewEvents[1].input)
                /\ \A other \in DOMAIN cache.data \ {SlogKey(source)} :
                      other \in DOMAIN cache'.data /\ cache'.data[other] = cache.data[other]
          /\ SlogFailed(source) => cache' = cache

\* C22: an entry is inserted into the command-output cache exactly when an
\* external command execution succeeds: a `zpool status` or `zpool iostat -v`
\* execution that fails inserts nothing and leaves the entries as they were;
\* a successful execution inserts its output even if the parsing of that
\* output then fails.
C22_CachePopulation == [][C22_Step]_vars

\* `zpool iostat -v` gave a text that is in the cache although its parsing
\* failed and the call returned the parse error
C22_Witness ==
    /\ SlogCall
    /\ ReturnedErr("ParseError")
    /\ call.events[Len(call.events)].cmd = execute("zpool", <<"iostat", "-v">>)
    /\ call.events[Len(call.events)].outcome = "Ok"
    /\ "zpool_iostat" \in DOMAIN cache.data
    /\ Some(cache.data["zpool_iostat"].value) = call.events[Len(call.events)].input

\* the status text names a log device: a line of a device in state ONLINE
\* below a logs header
HasLogDevice(text) ==
    \E i \in 1 .. Len(text) : \E j \in i + 1 .. Len(text) :
        /\ Len(text[i].parts) >= 1
        /\ text[i].parts[1] = W("logs")
        /\ contains_online(text[j])

\* the call has the text of `zpool status`, from the command or from the cache
SlogHasStatus ==
    /\ SlogCall
    /\ Len(call.events) >= 1
    /\ call.events[1].source = 1
    /\ is_some(call.events[1].input)

---------------------------------------------------------------------------
(* Claims about the collector's shared state *)

CollectMethods == {"collect_arc_stats", "collect_l2arc_stats", "collect_slog_stats"}

\* the last call was dropped by its caller at an await
Abandoned ==
    /\ call.method \in CollectMethods
    /\ pc = "idle"
    /\ is_none(call.result)

\* the last call returned an error
ReturnedAnErr ==
    /\ call.method \in CollectMethods
    /\ pc = "idle"
    /\ is_some(call.result)
    /\ unwrap(call.result).tag = "Err"

\* C23 as stated: a collection call that returns an error (or is abandoned
\* before completing) has performed no write to the Cache or to the Rate
\* Calculator; cache and rate-map writes happen only after a successful
\* parse, so shared collector state after a failed call equals the state
\* before it.
C23_NoPartialMutation_AsStated ==
    (ReturnedAnErr \/ Abandoned) =>
        /\ rate_calculator = call.rc_before
        /\ cache = call.cache_before

\* the call has the output of the command of `key` and stored it
StoredByCall(key) ==
    \E j \in 1 .. Len(call.events) :
        /\ call.events[j].cmd.cmd = "zpool"
        /\ call.events[j].outcome = "Ok"
        /\ key = SlogKey(call.events[j].source)
        /\ Some(cache.data[key].value) = call.events[j].input

\* C23 as amended: a collection call that returns an error (or is abandoned
\* before completing) has performed no write to the Rate Calculator; the
\* cache holds what it held before the call, except that each command of the
\* call that executed successfully has stored its output, parsed or not.
C23_NoPartialMutation ==
    (ReturnedAnErr \/ Abandoned) =>
        /\ rate_calculator = call.rc_before
        /\ DOMAIN call.cache_before.data \subseteq DOMAIN cache.data
        /\ \A key \in DOMAIN cache.data :
              \/ /\ key \in DOMAIN call.cache_before.data
                 /\ cache.data[key] = call.cache_before.data[key]
              \/ StoredByCall(key)

\* a call that found rates stored returned the parse error of the I/O table
\* it had just fetched
C23_Witness ==
    /\ SlogCall
    /\ ReturnedErr("ParseError")
    /\ DOMAIN call.rc_before.previous_values # {}
    /\ StoredByCall("zpool_iostat")

\* device names: those of the status texts, and names that end like a key
DeviceNames ==
    {"mirror-1", "mirror-2", "mirror-1_write", "mirror-1_write_ops", "mirror-1_write_bw",
     "mirror-_write_ops_write_bw", "mirror-"}

SlogKeys(device_name) == {slog_write_ops_key(device_name), slog_write_bw_key(device_name)}
ArcKeys == {"arc_read_ops"}
L2Keys == {"l2_total_ops", "l2_read_bytes"}

\* the keys whose stored value or timestamp this step changes
RcTouched ==
    {key \in DOMAIN rate_calculator.previous_values
                \cup DOMAIN rate_calculator'.previous_values
                \cup DOMAIN rate_calculator.previous_timestamps
                \cup DOMAIN rate_calculator'.previous_timestamps :
        \/ map_get(rate_calculator'.previous_values, key)
              # map_get(rate_calculator.previous_values, key)
        \/ map_get(rate_calculator'.previous_timestamps, key)
              # map_get(rate_calculator.previous_timestamps, key)}

\* no two of the keys of the devices and of the families are the same
KeysSeparate ==
    /\ \A d1 \in DeviceNames :
          /\ slog_write_ops_key(d1) # slog_write_bw_key(d1)
          /\ SlogKeys(d1) \cap (ArcKeys \cup L2Keys) = {}
          /\ \A d2 \in DeviceNames \ {d1} : SlogKeys(d1) \cap SlogKeys(d2) = {}
    /\ ArcKeys \cap L2Keys = {}

C24_Step ==
    /\ KeysSeparate
    /\ RcTouched # {} =>
          CASE call'.method = "collect_arc_stats" -> RcTouched \subseteq ArcKeys
            [] call'.method = "collect_l2arc_stats" -> RcTouched \subseteq L2Keys
            [] call'.method = "collect_slog_stats" ->
                  /\ is_some(call'.result)
                  /\ unwrap(call'.result).tag = "Ok"
                  /\ is_some(unwrap(call'.result).val)
                  /\ unwrap(unwrap(call'.result).val).device \in DeviceNames
                  /\ RcTouched \subseteq SlogKeys(unwrap(unwrap(call'.result).val).device)
            [] OTHER -> FALSE

\* C24: SLOG rate keys are qualified by the device name: for two distinct
\* device names the write-ops and write-bandwidth keys of one differ from
\* both keys of the other, and all SLOG keys differ from the fixed ARC and
\* L2ARC keys; a collection for one device or family never changes the rate
\* history of another device or family.
C24_RateKeySeparation == [][C24_Step]_vars

\* a collection for mirror-2 on a collector that holds the rate history of
\* mirror-1 and of both other families
C24_Witness ==
    /\ SlogCall
    /\ pc = "idle"
    /\ is_some(call.result)
    /\ unwrap(call.result) # Err("CommandError")
    /\ unwrap(call.result) # Err("ParseError")
    /\ unwrap(call.result) # Ok(None)
    /\ unwrap(unwrap(call.result).val).device = "mirror-2"
    /\ SlogKeys("mirror-1") \cup ArcKeys \cup L2Keys
          \subseteq DOMAIN call.rc_before.previous_values
    /\ \A key \in SlogKeys("mirror-1") \cup ArcKeys \cup L2Keys :
          /\ rate_calculator.previous_values[key] = call.rc_before.previous_values[key]
          /\ rate_calculator.previous_timestamps[key]
                = call.rc_before.previous_timestamps[key]
    /\ SlogKeys("mirror-2") \subseteq DOMAIN rate_calculator.previous_values

---------------------------------------------------------------------------
(* Claims about the monitoring loop *)

\* C26. Failure isolation between metric families: when the collection of
\* one family has failed in a cycle, the monitoring function has not
\* returned, and once the cycle is over each of the other families has been
\* collected in it and those that gave statistics have been displayed.
C26_FailureIsolation ==
    \A f \in monitor.failed :
        /\ monitor.stage # "returned"
        /\ monitor.stage = "select" =>
               /\ Families \ {f} \subseteq monitor.collected
               /\ monitor.displayed = monitor.present

---------------------------------------------------------------------------
(* Claims about joined collection *)

\* the rate keys and the cache keys of each family
FamilyRateKeys ==
    [arc |-> ArcKeys, l2arc |-> L2Keys,
     slog |-> UNION {SlogKeys(device_name) : device_name \in DeviceNames}]
FamilyCacheKeys == [arc |-> {}, l2arc |-> {}, slog |-> CacheKeys]

\* what a rate calculator holds for the keys, and what a cache holds
RcOn(rc, keys) ==
    [key \in keys |-> <<map_get(rc.previous_values, key), map_get(rc.previous_timestamps, key)>>]
CacheOn(cch, keys) ==
    [key \in keys |-> IF key \in DOMAIN cch.data THEN Some(cch.data[key]) ELSE None]

\* the family's call of the join: the one being polled or the one set aside
JoinCall(f) ==
    IF call.method = Method[f] THEN Some([pc |-> pc, call |-> call]) ELSE joined[f]

\* the call stands where it would stand on a collector of its own, with the
\* same result, and the collector holds for the family's keys what that
\* collector would hold
AsAlone(j) ==
    LET f == FamilyOf(j.call.method)
    IN  /\ j.call.solo.agree
        /\ j.call.result = j.call.solo.result
        /\ RcOn(rate_calculator, FamilyRateKeys[f]) = RcOn(j.call.solo.rc, FamilyRateKeys[f])
        /\ CacheOn(cache, FamilyCacheKeys[f]) = CacheOn(j.call.solo.cache, FamilyCacheKeys[f])

---------------------------------------------------------------------------
(* Claims about the status-tree and I/O-table parsers *)

\* the logs section header, and a line that begins with the name of a mirror
\* or of a device
IsLogsHeader(line) == line.parts = <<W("logs")>>
IsDeviceLine(line) ==
    /\ Len(line.parts) >= 1
    /\ line.parts[1].kind = "word"
    /\ line.parts[1].name \in {"mirror-1", "old-mirror-1", "sdc"}

\* the log device of a status text: the first token of the first device line
\* after the logs header, the section ending at the first non-empty line that
\* is no device line
RECURSIVE LogDevice(_, _)
LogDevice(lines, in_logs_section) ==
    IF lines = <<>> THEN None
    ELSE IF IsLogsHeader(Head(lines)) THEN LogDevice(Tail(lines), TRUE)
    ELSE IF ~in_logs_section \/ Head(lines).parts = <<>>
    THEN LogDevice(Tail(lines), in_logs_section)
    ELSE IF IsDeviceLine(Head(lines)) THEN Some(Head(lines).parts[1].name)
    ELSE None

\* C28. Status-tree parser: parse_slog_device_from_status never fails and
\* returns the first token of the first line beginning with a mirror or device
\* token between the logs header and the end of the logs section, which any
\* non-empty line that is no device line ends; it returns "none found" when
\* there is no such line.
C28_StatusTreeParser ==
    kstat.op = "status" => kstat.result = Ok(LogDevice(kstat.text, FALSE))

\* the line holds the device name; the line is a separator; the indices of
\* the lines that hold the name; the least index of a set
Names(line, device_name) ==
    \E j \in 1 .. Len(line.parts) :
        line.parts[j].kind = "word" /\ contains(line.parts[j].name, device_name)
IsSeparator(line) ==
    Len(line.parts) >= 1 /\ line.parts[1].kind = "word" /\ line.parts[1].name \in {"-", "-----"}
Named(text, device_name) == {i \in 1 .. Len(text) : Names(text[i], device_name)}
First(indices) == CHOOSE i \in indices : \A j \in indices : i <= j

\* what a row gives: field 5 as the write operations and field 7 through the
\* bandwidth parser, a parse failure when either is malformed; nothing but
\* zeros from a line of fewer than 7 fields
RowFields(line) ==
    IF Len(line.parts) < 7 THEN Ok(<<0, 0>>)
    ELSE IF is_none(parse_u64(line.parts[5])) \/ parse_bandwidth(line.parts[7]).tag = "Err"
    THEN Err("ParseError")
    ELSE Ok(<<unwrap(parse_u64(line.parts[5])), parse_bandwidth(line.parts[7]).val>>)

\* the row used when the first line holding the name has fewer than 7 fields:
\* the lines after it that can be the one used
RowSelected(text, device_name, after(_)) ==
    LET i == First(Named(text, device_name))
    IN  IF Len(text[i].parts) >= 7 THEN RowFields(text[i])
        ELSE IF after(i) = {} THEN Ok(<<0, 0>>)
        ELSE RowFields(text[First(after(i))])

\* C29 as stated: after a first line holding the name with fewer than 7
\* fields, only the next non-empty line that is no separator is used.
C29_RowSelection_AsStated ==
    LET NextData(i) == {j \in i + 1 .. Len(kstat.text) :
                           kstat.text[j].parts # <<>> /\ ~IsSeparator(kstat.text[j])}
    IN  (kstat.op = "iostat" /\ Named(kstat.text, kstat.device_name) # {})
            => kstat.result = RowSelected(kstat.text, kstat.device_name, NextData)

\* C29. I/O-table parser, row selection: parse_slog_stats_from_iostat takes
\* the first line holding the device name; with 7 fields or more it gives
\* field 5 and field 7 through the bandwidth parser (the row
\* 'mirror-1 - - 0 23 0 12.0M' gives (23, 12582912)); otherwise it passes over
\* the later lines that hold the name in fewer than 7 fields and uses only
\* the first line after it that holds the name in 7 fields or more or is a
\* non-empty line, no separator, without the name; a malformed field in the
\* row used is a parse failure.
C29_RowSelection ==
    LET NextUsed(i) == {j \in i + 1 .. Len(kstat.text) :
                           \/ /\ Names(kstat.text[j], kstat.device_name)
                              /\ Len(kstat.text[j].parts) >= 7
                           \/ /\ ~Names(kstat.text[j], kstat.device_name)
                              /\ kstat.text[j].parts # <<>>
                              /\ ~IsSeparator(kstat.text[j])}
    IN  /\ (kstat.op = "iostat" /\ Named(kstat.text, kstat.device_name) # {})
               => kstat.result = RowSelected(kstat.text, kstat.device_name, NextUsed)
        /\ (/\ kstat.op = "iostat"
            /\ kstat.device_name = "mirror-1"
            /\ kstat.text = <<Line(TRUE, <<W("mirror-1"), W("-"), W("-"),
                                          I(0), I(23), I(0), B(12, "M")>>)>>)
               => kstat.result = Ok(<<23, 12582912>>)

\* the name stands alone on two lines and the row below them, of another
\* device, has been used
C29_Witness ==
    /\ kstat.op = "iostat"
    /\ kstat.device_name = "mirror-1"
    /\ Len(kstat.text) = 3
    /\ kstat.text[1].parts = <<W("mirror-1")>>
    /\ kstat.text[2].parts = <<W("mirror-1")>>
    /\ kstat.text[3].parts[1] = W("sdc")
    /\ kstat.result = Ok(<<5, 1024>>)

\* C30. I/O-table parser, missing device: when no line of the text holds the
\* device name, parse_slog_stats_from_iostat returns (0, 0) and no error.
C30_MissingDevice ==
    (kstat.op = "iostat" /\ Named(kstat.text, kstat.device_name) = {})
        => kstat.result = Ok(<<0, 0>>)

\* a table with rows of 7 fields, none of the device looked for, gave (0, 0)
C30_Witness ==
    /\ kstat.op = "iostat"
    /\ kstat.device_name = "nonexistent"
    /\ Len(kstat.text) = MaxLines
    /\ \A j \in 1 .. Len(kstat.text) : Len(kstat.text[j].parts) >= 7
    /\ kstat.result = Ok(<<0, 0>>)

---------------------------------------------------------------------------
(* Claims about collect_slog_stats and cached I/O tables *)

\* the call took the I/O-table text from the cache
IostatReused ==
    \E j \in 1 .. Len(call.events) : call.events[j].cmd = cache_get("zpool_iostat")

\* the call executed `zpool iostat -v` and got its output
IostatExecuted ==
    \E j \in 1 .. Len(call.events) :
        /\ call.events[j].cmd = execute("zpool", <<"iostat", "-v">>)
        /\ call.events[j].outcome = "Ok"

\* the call has returned the record of a log device
SlogReturnedRecord ==
    /\ SlogCall
    /\ pc = "idle"
    /\ is_some(call.result)
    /\ unwrap(call.result).tag = "Ok"
    /\ is_some(unwrap(call.result).val)

\* the call took the pool-status text from the cache
StatusReused ==
    \E j \in 1 .. Len(call.events) : call.events[j].cmd = cache_get("zpool_status")

\* the call executed `zpool status` and got its output
StatusExecuted ==
    \E j \in 1 .. Len(call.events) :
        /\ call.events[j].cmd = execute("zpool", <<"status">>)
        /\ call.events[j].outcome = "Ok"

\* C36. SLOG rates under caching, as stated: a SLOG collection that reuses
\* the cached I/O-table text reports write_ops = 0 and write_bw = 0; a
\* collection that reports a rate other than 0 has executed the
\* I/O-statistics command.
C36_RatesUnderCaching_AsStated ==
    SlogReturnedRecord =>
        LET slog == unwrap(unwrap(call.result).val)
        IN  /\ IostatReused => (slog.write_ops = 0 /\ slog.write_bw = 0)
            /\ (slog.write_ops # 0 \/ slog.write_bw # 0) => IostatExecuted

\* C36. SLOG rates under caching: a SLOG collection that reuses both cached
\* texts, the pool status and the I/O table, reports write_ops = 0 and
\* write_bw = 0; a collection that reports a rate other than 0 has executed
\* one of the two commands.
C36_RatesUnderCaching ==
    SlogReturnedRecord =>
        LET slog == unwrap(unwrap(call.result).val)
        IN  /\ (StatusReused /\ IostatReused) => (slog.write_ops = 0 /\ slog.write_bw = 0)
            /\ (slog.write_ops # 0 \/ slog.write_bw # 0)
                  => (IostatExecuted \/ StatusExecuted)

\* a collection for the second device took both texts from the cache, the
\* rates of the first device and of its own stored, and reported 0 and 0
C36_Witness ==
    /\ SlogReturnedRecord
    /\ StatusReused
    /\ IostatReused
    /\ unwrap(unwrap(call.result).val).device = "mirror-2"
    /\ SlogKeys("mirror-1") \cup SlogKeys("mirror-2")
          \subseteq DOMAIN call.rc_before.previous_values
    /\ call.instant > call.rc_before.previous_timestamps[slog_write_bw_key("mirror-2")]
    /\ unwrap(unwrap(call.result).val).write_ops = 0
    /\ unwrap(unwrap(call.result).val).write_bw = 0

\* the I/O-table text stored by the last execution of the command, not
\* cleared and not expired, fails to parse for `device_name`
StickyFailure(device_name) ==
    /\ SlogFresh(2)
    /\ parse_slog_stats_from_iostat(unwrap(cache_ins["zpool_iostat"]).value,
                                    device_name).tag = "Err"

\* in this step a collect_slog_stats call returns
SlogReturns ==
    /\ call'.method = "collect_slog_stats"
    /\ pc' = "idle"
    /\ is_some(call'.result)
    /\ pc # "idle" \/ SlogStarts

\* the log device this step's call reads in the status text it obtains
DeviceFound ==
    LET status == CHOOSE j \in 1 .. Len(SlogNewEvents) : SlogNewEvents[j].source = 1
    IN  parse_slog_device_from_status(unwrap(SlogNewEvents[status].input)).val

\* in this step the call obtains the status text and comes to the I/O table
NeedsIostat == SlogHit(2) \/ SlogLaunched(2)

\* the log devices of the pools collected from
LogDevices == {"mirror-1", "mirror-2"}

C37_Step_AsStated ==
    (SlogReturns /\ \E device_name \in LogDevices : StickyFailure(device_name))
        => /\ call'.result = Some(Err("ParseError"))
           /\ pc # "slog_iostat"

\* C37. Sticky parse failure through the cache, as stated: while the stored
\* I/O-table text that fails to parse for the log device has neither expired
\* nor been cleared, every SLOG collection returns the parse failure without
\* executing the command.
C37_StickyFailure_AsStated == [][C37_Step_AsStated]_vars

C37_Step ==
    NeedsIostat =>
        /\ is_some(DeviceFound)
        /\ StickyFailure(unwrap(DeviceFound)) =>
              /\ SlogHit(2)
              /\ ~SlogLaunched(2)
              /\ SlogReturns
              /\ call'.result = Some(Err("ParseError"))
              /\ cache'.data["zpool_iostat"] = cache.data["zpool_iostat"]
        /\ ~SlogFresh(2) => SlogLaunched(2) /\ ~SlogHit(2)

\* C37. Sticky parse failure through the cache: while the stored I/O-table
\* text that fails to parse for the log device has neither expired nor been
\* cleared, every SLOG collection that finds that log device returns the
\* parse failure without executing the I/O-statistics command and leaves
\* the entry as it is; a collection that comes to the I/O table after the
\* expiry or a clear executes the command again.
C37_StickyFailure == [][C37_Step]_vars

\* a later collection took the table that fails to parse from the cache and
\* returned the parse failure
C37_Witness ==
    /\ SlogCall
    /\ ReturnedErr("ParseError")
    /\ IostatReused
    /\ ~IostatExecuted
    /\ "zpool_iostat" \in DOMAIN call.cache_before.data
    /\ call.instant > unwrap(cache_ins["zpool_iostat"]).at
    /\ cache.data["zpool_iostat"] = call.cache_before.data["zpool_iostat"]

---------------------------------------------------------------------------
(* Claims about the size of the collector's cache *)

\* C38. Bounded collector cache: the collector's cache holds entries only
\* under the keys of the pool-status text and of the I/O-table text, so never
\* more than 2; collect_arc_stats and collect_l2arc_stats take nothing from
\* the cache and leave it as they found it.
C38_BoundedCache ==
    /\ DOMAIN cache.data \subseteq {"zpool_status", "zpool_iostat"}
    /\ len(cache) <= 2
    /\ call.method \in {"collect_arc_stats", "collect_l2arc_stats"} =>
          /\ cache = call.cache_before
          /\ \A j \in 1 .. Len(call.events) : call.events[j].cmd.cmd # "cache.get"

\* collect_arc_stats was called on a collector whose cache held both texts
C38_Witness ==
    /\ call.method = "collect_arc_stats"
    /\ pc = "idle"
    /\ Len(call.events) >= 2
    /\ DOMAIN cache.data = {"zpool_status", "zpool_iostat"}
    /\ cache = call.cache_before

---------------------------------------------------------------------------
(* Claims about unsuccessful collections *)

\* the call c, at position p, has returned an error or 'not present'
ReturnedNoRecord(c, p) ==
    /\ c.method \in CollectMethods
    /\ p = "idle"
    /\ is_some(c.result)
    /\ \/ unwrap(c.result).tag = "Err"
       \/ /\ c.method # "collect_arc_stats"
          /\ unwrap(c.result).tag = "Ok"
          /\ is_none(unwrap(c.result).val)

\* the call c, at position p, has returned a metric record
ReturnedRecord(c, p) ==
    /\ c.method \in CollectMethods
    /\ p = "idle"
    /\ is_some(c.result)
    /\ unwrap(c.result).tag = "Ok"
    /\ c.method # "collect_arc_stats" => is_some(unwrap(c.result).val)

C35_Step ==
    /\ ReturnedNoRecord(call', pc') => rate_calculator' = call'.rc_before
    /\ RcTouched # {} => ReturnedRecord(call', pc')

\* C35. Rate Calculator untouched by unsuccessful collections: a call that
\* returns an error or 'not present' leaves every Rate Calculator entry as it
\* found it, and an entry is written only by a step in which a call returns a
\* metric record.
C35_UnsuccessfulLeavesRates == [][C35_Step]_vars

\* collect_l2arc_stats found rates stored and returned 'not present'
C35_Witness ==
    /\ call.method = "collect_l2arc_stats"
    /\ ReturnedNoRecord(call, pc)
    /\ unwrap(call.result).tag = "Ok"
    /\ L2Keys \subseteq DOMAIN call.rc_before.previous_values
    /\ rate_calculator = call.rc_before

---------------------------------------------------------------------------
(* Claims about the output of the arcstat command *)

\* the layout the commands are asked for and the demo executor answers with:
\* hit%, miss%, read, arcsz, c, e.g. "100.0 0.0 1247 49720066048 49910562816"
FiveColumns(output) ==
    /\ Len(output) = 5
    /\ output[1].kind \in {"dec", "int"}
    /\ output[2].kind \in {"dec", "int"}
    /\ \A k \in 3 .. 5 : output[k].kind = "int"

\* C33. Rate-reporting command output: a line of five numbers in the layout
\* hit rate, miss rate, read operations, size, target is parsed successfully,
\* the hit rate, size and target of the record returned are those of the
\* first, fourth and fifth column, and the call succeeds.
C33_FallbackOutput ==
    ArcCall =>
        \A j \in ArcCommandEvents :
            LET input == call.events[j].input
            IN  (is_some(input) /\ FiveColumns(unwrap(input)))
                    => /\ call.events[j].outcome = "Ok"
                       /\ ArcReturned
                       /\ unwrap(call.result).tag = "Ok"
                       /\ unwrap(call.result).val.hit_rate = unwrap(parse_f64(unwrap(input)[1]))
                       /\ unwrap(call.result).val.size = unwrap(input)[4].val
                       /\ unwrap(call.result).val.target = unwrap(input)[5].val

---------------------------------------------------------------------------
(* CacheStatus::from_hit_rate *)

\* the thresholds of from_hit_rate
ExcellentThreshold == 85
GoodThreshold == 70
FairThreshold == 50

\* the hit rates classified: n / HitRateDen from -1 to MaxHitRate, and NaN
MaxHitRate == 101
HitRateDen == 2

\* an f64 percentage: num / den, or NaN
Rate(num, den) == [num |-> num, den |-> den, nan |-> FALSE]
NaN == [num |-> 0, den |-> 1, nan |-> TRUE]

\* hit_rate >= x on f64: false when hit_rate is NaN
f64_ge(hit_rate, x) == ~hit_rate.nan /\ hit_rate.num >= x * hit_rate.den

\* from_hit_rate with the boundaries on the worse side
from_hit_rate_exclusive(hit_rate) ==
    IF ~hit_rate.nan /\ hit_rate.num > ExcellentThreshold * hit_rate.den THEN "Excellent"
    ELSE IF ~hit_rate.nan /\ hit_rate.num > GoodThreshold * hit_rate.den THEN "Good"
    ELSE IF ~hit_rate.nan /\ hit_rate.num > FairThreshold * hit_rate.den THEN "Fair"
    ELSE "Poor"

\* CacheStatus::from_hit_rate
from_hit_rate(hit_rate) ==
    IF f64_ge(hit_rate, ExcellentThreshold) THEN "Excellent"
    ELSE IF f64_ge(hit_rate, GoodThreshold) THEN "Good"
    ELSE IF f64_ge(hit_rate, FairThreshold) THEN "Fair"
    ELSE "Poor"

HitRates == {Rate(n, HitRateDen) : n \in (0 - HitRateDen) .. MaxHitRate * HitRateDen} \cup {NaN}

\* from_hit_rate applied to the hit rate
FromHitRate ==
    /\ kstat.op = "none"
    /\ kstat' = [kstat EXCEPT !.op = "from_hit_rate", !.result = from_hit_rate(kstat.text)]
    /\ UNCHANGED <<rc_vars, cache_vars, pc, call, monitor, joined>>

StatusNext == FromHitRate

---------------------------------------------------------------------------
(* Claims about CacheStatus *)

\* Poor < Fair < Good < Excellent
StatusRank(status) ==
    CASE status = "Poor" -> 0 [] status = "Fair" -> 1
      [] status = "Good" -> 2 [] status = "Excellent" -> 3

\* r >= x and r < x on the numbers
AtLeast(r, x) == ~r.nan /\ r.num >= x * r.den
Below(r, x) == ~r.nan /\ r.num < x * r.den

\* C34. CacheStatus classification: Excellent if r >= 85, Good if
\* 70 <= r < 85, Fair if 50 <= r < 70, Poor otherwise; a greater hit rate
\* never gets a worse status.
C34_Classification ==
    kstat.op = "from_hit_rate"
        => LET r == kstat.text
           IN  /\ kstat.result =
                      (IF AtLeast(r, 85) THEN "Excellent"
                       ELSE IF AtLeast(r, 70) /\ Below(r, 85) THEN "Good"
                       ELSE IF AtLeast(r, 50) /\ Below(r, 70) THEN "Fair"
                       ELSE "Poor")
               /\ \A q \in HitRates :
                      (~q.nan /\ ~r.nan /\ q.num * r.den >= r.num * q.den)
                          => StatusRank(from_hit_rate(q)) >= StatusRank(kstat.result)

\* exactly 85 was classified Excellent
C34_Witness ==
    /\ kstat.op = "from_hit_rate"
    /\ kstat.text = Rate(85 * HitRateDen, HitRateDen)
    /\ kstat.result = "Excellent"

---------------------------------------------------------------------------
(* parse_bandwidth on strings, with an f64 and a u64 of reduced width *)

\* the bits of an f64 mantissa (53 in the build)
F64Bits == 3
\* the bits of the u64 a byte count is returned in (64 in the build)
BwU64Bits == 6
\* the bits between one unit and the next (10 in the build: 1024 = 2^10)
KiloBits == 1
\* the numbers of the strings are n / 2^s with n <= MaxBwNum, s <= MaxBwScale
MaxBwNum == 12
MaxBwScale == 2

RECURSIVE Pow2(_)
Pow2(k) == IF k = 0 THEN 1 ELSE 2 * Pow2(k - 1)

RECURSIVE bit_length(_)
bit_length(n) == IF n = 0 THEN 0 ELSE 1 + bit_length(n \div 2)

\* u64::MAX of the byte counts
bw_u64_MAX == Pow2(BwU64Bits) - 1

\* a decimal number text of value n / 2^s, with a minus sign if neg; s = 0 is a
\* text without a decimal point ("12"), s > 0 one with a point ("12.0", "1.5")
Num(neg, n, s) == [kind |-> "num", neg |-> neg, n |-> n, s |-> s, name |-> ""]
\* a text that is no decimal number and does not end in a unit letter
Word(name) == [kind |-> "word", neg |-> FALSE, n |-> 0, s |-> 0, name |-> name]
\* the string body ++ last, where last is one letter or nothing
Str(body, last) == [body |-> body, last |-> last]

\* "BKMGTbkmgt"
UnitLetters == {"B", "K", "M", "G", "T", "b", "k", "m", "g", "t"}

\* char::to_ascii_uppercase on a unit letter
to_ascii_uppercase(c) ==
    CASE c = "b" -> "B" [] c = "k" -> "K" [] c = "m" -> "M"
      [] c = "g" -> "G" [] c = "t" -> "T" [] OTHER -> c

\* the position of a unit letter in B, K, M, G, T
unit_index(last_char) ==
    CASE to_ascii_uppercase(last_char) = "B" -> 0
      [] to_ascii_uppercase(last_char) = "K" -> 1
      [] to_ascii_uppercase(last_char) = "M" -> 2
      [] to_ascii_uppercase(last_char) = "G" -> 3
      [] to_ascii_uppercase(last_char) = "T" -> 4

\* the match on last_char.to_ascii_uppercase(): 1, 1024, 1024^2, 1024^3, 1024^4
bw_multiplier(last_char) == Pow2(KiloBits * unit_index(last_char))

\* an integer rounded to the nearest one of F64Bits significant bits, a tie
\* going to the even mantissa
round_f64(n) ==
    LET drop == bit_length(n) - F64Bits
    IN  IF drop <= 0 THEN n
        ELSE LET q == n \div Pow2(drop)
                 r == n % Pow2(drop)
                 half == Pow2(drop - 1)
             IN  IF r > half \/ (r = half /\ q % 2 = 1)
                 THEN (q + 1) * Pow2(drop)
                 ELSE q * Pow2(drop)

\* an f64: m / 2^s with its sign, an infinity or a NaN
F64(class, neg, m, s) == [class |-> class, neg |-> neg, m |-> m, s |-> s]

\* str::parse::<f64>: a decimal number gives the nearest f64, "inf" and "nan"
\* are accepted too, any other text is an error
str_parse_f64(text) ==
    IF text.kind = "num" THEN Some(F64("finite", text.neg, round_f64(text.n), text.s))
    ELSE IF text.name = "inf" THEN Some(F64("inf", FALSE, 0, 0))
    ELSE IF text.name = "nan" THEN Some(F64("nan", FALSE, 0, 0))
    ELSE None

\* str::parse::<u64> on the whole string: decimal digits only, within u64
str_parse_u64(bw_str) ==
    IF /\ bw_str.last = ""
       /\ bw_str.body.kind = "num"
       /\ ~bw_str.body.neg
       /\ bw_str.body.s = 0
       /\ bw_str.body.n <= bw_u64_MAX
    THEN Some(bw_str.body.n)
    ELSE None

\* num * multiplier as f64: a power of two, so the product is exact
f64_mul(num, multiplier_) == [num EXCEPT !.m = num.m * multiplier_]

\* `as u64` that wraps around instead of saturating
f64_as_u64_wrapping(x) ==
    IF x.class # "finite" \/ x.neg THEN 0
    ELSE (x.m \div Pow2(x.s)) % (bw_u64_MAX + 1)

\* `as u64` on an f64: the fraction is cut off, a negative value and NaN give
\* 0, a value above u64::MAX gives u64::MAX
f64_as_u64(x) ==
    IF x.class = "nan" \/ x.neg THEN 0
    ELSE IF x.class = "inf" THEN bw_u64_MAX
    ELSE IF x.m \div Pow2(x.s) > bw_u64_MAX THEN bw_u64_MAX
    ELSE x.m \div Pow2(x.s)

\* parse_bandwidth on a string
parse_bandwidth_str(bw_str) ==
    IF bw_str \in {Str(Word(""), ""), Str(Word("-"), "")} THEN Ok(0)
    ELSE IF bw_str = Str(Word(" "), "") THEN Err("InvalidFormat")
    ELSE IF bw_str.last \notin UnitLetters
    THEN IF is_some(str_parse_u64(bw_str))
         THEN Ok(unwrap(str_parse_u64(bw_str)))
         ELSE Err("ParseError")
    ELSE LET num == str_parse_f64(bw_str.body)
         IN  IF is_none(num) THEN Err("ParseError")
             ELSE Ok(f64_as_u64(f64_mul(unwrap(num), bw_multiplier(bw_str.last))))

\* the strings parsed: numbers and other texts, followed by a unit letter, by
\* another letter or by nothing
BwNumbers == {Num(neg, n, s) : neg \in BOOLEAN, n \in 0 .. MaxBwNum, s \in 0 .. MaxBwScale}
BwWords == {Word(name) : name \in {"", "-", " ", "inf", "nan", "abc"}}
BwStrings == {Str(body, last) : body \in BwNumbers \cup BwWords, last \in UnitLetters \cup {"X", ""}}

\* parse_bandwidth applied to the string
ParseBandwidth ==
    /\ kstat.op = "none"
    /\ kstat' = [kstat EXCEPT !.op = "bandwidth",
                              !.result = parse_bandwidth_str(kstat.text)]
    /\ UNCHANGED <<rc_vars, cache_vars, pc, call, monitor, joined>>

BandwidthNext == ParseBandwidth

---------------------------------------------------------------------------
(* Claims about parse_bandwidth *)

\* a number followed by one unit letter
IsNumberWithUnit(bw_str) == bw_str.body.kind = "num" /\ bw_str.last \in UnitLetters

\* n / 2^s * 1024^i truncated toward zero
TruncatedProduct(n, s, last) == (n * Pow2(KiloBits * unit_index(last))) \div Pow2(s)

\* C31. Bandwidth units, as stated: for every number followed by one unit
\* letter parse_bandwidth returns number * 1024^i truncated toward zero (read
\* for the numbers that are not negative, a byte count being unsigned).
C31_BandwidthUnits_AsStated ==
    (kstat.op = "bandwidth" /\ IsNumberWithUnit(kstat.text) /\ ~kstat.text.body.neg)
        => /\ kstat.result.tag = "Ok"
           /\ kstat.result.val =
                  TruncatedProduct(kstat.text.body.n, kstat.text.body.s, kstat.text.last)

\* C31. Bandwidth units: for every number followed by one unit letter
\* parse_bandwidth returns r * 1024^i truncated toward zero, where r is the
\* number rounded to the nearest f64, except that a negative number gives 0
\* and a product above u64::MAX gives u64::MAX; the upper- and the lower-case
\* letter give the same result.
C31_BandwidthUnits ==
    (kstat.op = "bandwidth" /\ IsNumberWithUnit(kstat.text))
        => LET body == kstat.text.body
               product == TruncatedProduct(round_f64(body.n), body.s, kstat.text.last)
           IN  /\ kstat.result.tag = "Ok"
               /\ kstat.result.val = IF body.neg THEN 0
                                     ELSE IF product > bw_u64_MAX THEN bw_u64_MAX
                                     ELSE product
               /\ \A last \in UnitLetters :
                      to_ascii_uppercase(last) = to_ascii_uppercase(kstat.text.last)
                          => parse_bandwidth_str(Str(body, last)) = kstat.result

\* "1.5g" gave one and a half times 1024^3
C31_Witness ==
    /\ kstat.op = "bandwidth"
    /\ kstat.text = Str(Num(FALSE, 3, 1), "g")
    /\ kstat.result.tag = "Ok"
    /\ kstat.result.val = (3 * Pow2(KiloBits * 3)) \div 2

\* C32. Bandwidth special cases and failures: the empty string and a lone
\* dash give 0; a string without a trailing letter is parsed as a whole
\* decimal integer; a string with an unrecognized trailing letter, or with a
\* text that is no number before a unit letter, is a parse failure.
C32_BandwidthFailures ==
    kstat.op = "bandwidth"
        => LET bw_str == kstat.text
               body == bw_str.body
           IN  /\ bw_str \in {Str(Word(""), ""), Str(Word("-"), "")}
                      => (kstat.result.tag = "Ok" /\ kstat.result.val = 0)
               /\ (bw_str.last = "" /\ body.kind = "num")
                      => IF ~body.neg /\ body.s = 0
                         THEN kstat.result.tag = "Ok" /\ kstat.result.val = body.n
                         ELSE kstat.result.tag = "Err"
               /\ bw_str.last = "X" => kstat.result.tag = "Err"
               /\ (bw_str.last \in UnitLetters /\ body.kind = "word")
                      => kstat.result.tag = "Err"

---------------------------------------------------------------------------
(* Specifications *)

\* the RateCalculator alone
RateInit ==
    /\ rate_calculator = RateCalculator_new
    /\ rc_ret = None
    /\ rc_call = NoCall
    /\ rc_obs = [k \in Keys |-> None]
    /\ rc_solo = [k \in Keys |-> RateCalculator_new]
    /\ rc_solo_ret = None
    /\ cache = Cache_new(MaxTtl)
    /\ now = 0
    /\ cache_ret = None
    /\ cache_call = CacheNoCall
    /\ cache_ins = [k \in CacheKeys |-> None]
    /\ kstat = KstatIdle
    /\ pc = "idle"
    /\ call = NoCollect
    /\ monitor = NoMonitor
    /\ joined = NoJoin

RateSpec == RateInit /\ [][RcNext]_vars

\* the Cache alone: Cache::new(default_ttl) at instant 0
CacheSpecInit ==
    /\ \E default_ttl \in Ttls : cache = Cache_new(default_ttl)
    /\ now = 0
    /\ cache_ret = None
    /\ cache_call = CacheNoCall
    /\ cache_ins = [k \in CacheKeys |-> None]
    /\ rate_calculator = RateCalculator_new
    /\ rc_ret = None
    /\ rc_call = NoCall
    /\ rc_obs = [k \in Keys |-> None]
    /\ rc_solo = [k \in Keys |-> RateCalculator_new]
    /\ rc_solo_ret = None
    /\ kstat = KstatIdle
    /\ pc = "idle"
    /\ call = NoCollect
    /\ monitor = NoMonitor
    /\ joined = NoJoin

CacheSpec == CacheSpecInit /\ [][CacheNext]_vars

\* kernel statistics texts, each parsed once
KstatInit ==
    /\ \E text \in KstatTexts : kstat = [KstatIdle EXCEPT !.text = text]
    /\ pc = "idle"
    /\ call = NoCollect
    /\ monitor = NoMonitor
    /\ joined = NoJoin
    /\ rate_calculator = RateCalculator_new
    /\ rc_ret = None
    /\ rc_call = NoCall
    /\ rc_obs = [k \in Keys |-> None]
    /\ rc_solo = [k \in Keys |-> RateCalculator_new]
    /\ rc_solo_ret = None
    /\ cache = Cache_new(MaxTtl)
    /\ now = 0
    /\ cache_ret = None
    /\ cache_call = CacheNoCall
    /\ cache_ins = [k \in CacheKeys |-> None]

KstatSpec == KstatInit /\ [][KstatNext]_vars

\* status and I/O-table texts, each parsed once
SlogTextInit ==
    /\ \E text \in SlogTexts : kstat = [KstatIdle EXCEPT !.text = text]
    /\ pc = "idle"
    /\ call = NoCollect
    /\ monitor = NoMonitor
    /\ joined = NoJoin
    /\ rate_calculator = RateCalculator_new
    /\ rc_ret = None
    /\ rc_call = NoCall
    /\ rc_obs = [k \in Keys |-> None]
    /\ rc_solo = [k \in Keys |-> RateCalculator_new]
    /\ rc_solo_ret = None
    /\ cache = Cache_new(MaxTtl)
    /\ now = 0
    /\ cache_ret = None
    /\ cache_call = CacheNoCall
    /\ cache_ins = [k \in CacheKeys |-> None]

SlogTextSpec == SlogTextInit /\ [][SlogTextNext]_vars

\* bandwidth strings, each parsed once
BandwidthInit ==
    /\ \E bw_str \in BwStrings : kstat = [KstatIdle EXCEPT !.text = bw_str]
    /\ pc = "idle"
    /\ call = NoCollect
    /\ monitor = NoMonitor
    /\ joined = NoJoin
    /\ rate_calculator = RateCalculator_new
    /\ rc_ret = None
    /\ rc_call = NoCall
    /\ rc_obs = [k \in Keys |-> None]
    /\ rc_solo = [k \in Keys |-> RateCalculator_new]
    /\ rc_solo_ret = None
    /\ cache = Cache_new(MaxTtl)
    /\ now = 0
    /\ cache_ret = None
    /\ cache_call = CacheNoCall
    /\ cache_ins = [k \in CacheKeys |-> None]

BandwidthSpec == BandwidthInit /\ [][BandwidthNext]_vars

\* hit rates, each classified once
StatusInit ==
    /\ \E hit_rate \in HitRates : kstat = [KstatIdle EXCEPT !.text = hit_rate]
    /\ pc = "idle"
    /\ call = NoCollect
    /\ monitor = NoMonitor
    /\ joined = NoJoin
    /\ rate_calculator = RateCalculator_new
    /\ rc_ret = None
    /\ rc_call = NoCall
    /\ rc_obs = [k \in Keys |-> None]
    /\ rc_solo = [k \in Keys |-> RateCalculator_new]
    /\ rc_solo_ret = None
    /\ cache = Cache_new(MaxTtl)
    /\ now = 0
    /\ cache_ret = None
    /\ cache_call = CacheNoCall
    /\ cache_ins = [k \in CacheKeys |-> None]

StatusSpec == StatusInit /\ [][StatusNext]_vars

\* a fresh collector, as ZfsStatsCollector::new leaves it
CollectorInit ==
    /\ rate_calculator = RateCalculator_new
    /\ cache = Collector_cache
    /\ now = 0
    /\ pc = "idle"
    /\ call = NoCollect
    /\ monitor = NoMonitor
    /\ joined = NoJoin
    /\ kstat = KstatIdle
    /\ rc_ret = None
    /\ rc_call = NoCall
    /\ rc_obs = [k \in Keys |-> None]
    /\ rc_solo = [k \in Keys |-> RateCalculator_new]
    /\ rc_solo_ret = None
    /\ cache_ret = None
    /\ cache_call = CacheNoCall
    /\ cache_ins = [k \in CacheKeys |-> None]

ArcSpec == CollectorInit /\ [][ArcNext]_vars

L2SlogSpec == CollectorInit /\ [][L2SlogNext]_vars

SlogSpec == CollectorInit /\ [][SlogNext]_vars

CollectorSpec == CollectorInit /\ [][CollectorNext]_vars

SlogDeviceSpec == CollectorInit /\ [][SlogDeviceNext]_vars

MonitorSpec == CollectorInit /\ [][MonitorNext]_vars

JoinSpec == CollectorInit /\ [][JoinNext]_vars

===========================================================================
